---- MODULE Spec2Model ----
(***************************************************************************)
(* Model of library/openshift_provision.py: one run of run_module() is     *)
(* construction of OpenShiftProvision, provision(), and the emission of    *)
(* the result through exit_json / fail_json.  The cluster behind the `oc`  *)
(* executable persists from one run to the next; the files a run makes    *)
(* (scratch file, manifest) are followed until the run's process ends.     *)
(* The kinds are ConfigMap (no normalizer of its own) and Service, of      *)
(* which metadata and spec.type / spec.clusterIP are kept.                 *)
(*                                                                         *)
(* Documents are records.  A mapping key that is not present is the string *)
(* Absent (scalar leaves) or the record AbsentRec (nested mappings);       *)
(* Python None is the string Null for a leaf and the record None for a     *)
(* whole document.  A JSON string holding a document is Dumps(doc).        *)
(***************************************************************************)
EXTENDS Integers, Sequences, FiniteSets, TLC

VARIABLES
    cluster,      \* the object the cluster holds under (kind, name), or None
    scratch,      \* the mkstemp files of this run that exist
    runs,         \* number of runs of run_module started so far
    pc,           \* position of the current run
    params,       \* module.params and module.check_mode of the current run
    self,         \* the OpenShiftProvision instance: action, resource, ...
    loc,          \* locals of provision()
    invocations,  \* the argument vectors given to run_oc in this run, in order
    written,      \* the manifest files written in this run, in order
    result,       \* what the run handed to its caller
    prev          \* summary of the previous completed run

vars == <<cluster, scratch, runs, pc, params, self, loc,
          invocations, written, result, prev>>

(***************************************************************************)
(* Bounds                                                                  *)
(***************************************************************************)
MaxRuns == 2
\* The longest list given to the differ and to the normalizers
MaxLen == 2
\* The largest number written ahead of the unit of a quantity
MaxAmount == 12

(***************************************************************************)
(* Values                                                                  *)
(***************************************************************************)
Absent == "<absent>"
Null == "null"
AbsentRec == [absent |-> TRUE]
NullRec == [null |-> TRUE]
None == [none |-> TRUE]

IsNone(x) == x = None
IsError(x) == "err" \in DOMAIN x
Error(m) == [err |-> TRUE, msg |-> m]

\* json.dumps / json.loads: a JSON text is a value of its own, distinct from
\* the document it encodes.
Dumps(x) == [json |-> x]
IsJson(s) == "json" \in DOMAIN s
Loads(s) == s.json
Str(s) == [str |-> s]

LAC == "kubectl.kubernetes.io/last-applied-configuration"

\* metadata.annotations as a mapping: the last-applied-configuration entry and
\* one other entry.
Annotations(lac, other) == [lac |-> lac, other |-> other]
EmptyAnnotations == Annotations(AbsentRec, Absent)
IsMapping(a) == "lac" \in DOMAIN a

Metadata(name, ns, labels, ann) ==
    [annotations |-> ann, creationTimestamp |-> Absent, generation |-> Absent,
     labels |-> labels, name |-> name, namespace |-> ns,
     resourceVersion |-> Absent, selfLink |-> Absent, uid |-> Absent]

ServiceSpec(type, clusterIP) == [clusterIP |-> clusterIP, type |-> type]

Document(kind, metadata, data, spec) ==
    [kind |-> kind, metadata |-> metadata, data |-> data, spec |-> spec,
     status |-> Absent]

(***************************************************************************)
(* merge_dict, as normalize_override_dynamic_config uses it                *)
(* (overwrite=True): the patch's mappings are merged key by key, an empty  *)
(* target mapping is left as it is, a target that is not a mapping raises. *)
(***************************************************************************)
MergeAnnotations(a) ==
    IF a = AbsentRec THEN Annotations(Str(""), Absent)
    ELSE IF IsMapping(a)
         THEN IF a = EmptyAnnotations THEN a ELSE [a EXCEPT !.lac = Str("")]
         ELSE Error("Unable to merge NoneType with dict")

DynamicMetadata ==
    [annotations |-> Annotations(Str(""), Absent), creationTimestamp |-> "",
     generation |-> "0", labels |-> Absent, name |-> Absent, namespace |-> "",
     resourceVersion |-> "0", selfLink |-> "", uid |-> ""]

MetadataIsEmpty(m) ==
    /\ m.annotations = AbsentRec
    /\ \A k \in DOMAIN m \ {"annotations"} : m[k] = Absent

\* The documents of this model carry no spec.template, so the second merge of
\* normalize_override_dynamic_config never applies.
normalize_override_dynamic_config(resource) ==
    IF resource.metadata = AbsentRec
    THEN [resource EXCEPT !.metadata = DynamicMetadata]
    ELSE IF MetadataIsEmpty(resource.metadata) THEN resource
    ELSE LET a == MergeAnnotations(resource.metadata.annotations)
         IN  IF IsError(a) THEN a
             ELSE [resource EXCEPT !.metadata =
                     [@ EXCEPT !.annotations = a,
                               !.creationTimestamp = "",
                               !.generation = "0",
                               !.namespace = "",
                               !.resourceVersion = "0",
                               !.selfLink = "",
                               !.uid = ""]]

normalize_ObjectMeta_V1(metadata) ==
    IF metadata = AbsentRec \/ MetadataIsEmpty(metadata) THEN metadata
    ELSE [metadata EXCEPT
            !.annotations =
                [(IF @ = AbsentRec THEN EmptyAnnotations ELSE @)
                    EXCEPT !.lac = Str("")],
            !.creationTimestamp = "",
            !.generation = "0",
            !.namespace = "",
            !.resourceVersion = "0",
            !.selfLink = "",
            !.uid = ""]

\* Of the defaults of normalize_ServiceSpec_V1 the documents of this model
\* carry `type`; ports and sessionAffinity are absent on both sides.
normalize_ServiceSpec_V1(spec) ==
    IF spec.type = Absent THEN [spec EXCEPT !.type = "ClusterIP"] ELSE spec

normalize_Service_V1(service) ==
    [service EXCEPT
        !.status = Null,
        !.metadata = normalize_ObjectMeta_V1(@),
        !.spec = normalize_ServiceSpec_V1(
                    IF @ = AbsentRec THEN ServiceSpec(Absent, Absent) ELSE @)]

(***************************************************************************)
(* make_field_patch                                                        *)
(***************************************************************************)
Test(path, value) == [op |-> "test", path |-> path, value |-> value]
Replace(path, value) == [op |-> "replace", path |-> path, value |-> value]
Add(path, value) == [op |-> "add", path |-> path, value |-> value]
Remove(path) == [op |-> "remove", path |-> path]

\* compare_values on two leaves
CompareLeaf(path, value, other) ==
    IF value = other THEN <<>>
    ELSE <<Test(path, value), Replace(path, other)>>

\* compare_dict, first loop, for one key of src; compared is what
\* compare_values yields for the two values of the key
SrcKey(path, key, s, d, absent, compared) ==
    IF s = absent THEN <<>>
    ELSE IF d = absent
         THEN <<Test(path \o "/" \o key, s), Remove(path \o "/" \o key)>>
         ELSE compared

\* compare_dict, second loop, for one key of dst
DstKey(path, key, s, d, absent) ==
    IF d # absent /\ s = absent THEN <<Add(path \o "/" \o key, d)>> ELSE <<>>

CompareAnnotations(path, src, dst) ==
    IF src = dst THEN <<>>
    ELSE IF IsMapping(src) /\ IsMapping(dst)
         THEN SrcKey(path, LAC, src.lac, dst.lac, AbsentRec,
                     CompareLeaf(path \o "/" \o LAC, src.lac, dst.lac))
              \o SrcKey(path, "other", src.other, dst.other, Absent,
                        CompareLeaf(path \o "/other", src.other, dst.other))
              \o DstKey(path, LAC, src.lac, dst.lac, AbsentRec)
              \o DstKey(path, "other", src.other, dst.other, Absent)
         ELSE <<Test(path, src), Replace(path, dst)>>

MetadataLeaves ==
    <<"creationTimestamp", "generation", "labels", "name", "namespace",
      "resourceVersion", "selfLink", "uid">>

RECURSIVE SrcLeaves(_, _, _, _), DstLeaves(_, _, _, _)
SrcLeaves(path, keys, src, dst) ==
    IF keys = <<>> THEN <<>>
    ELSE SrcKey(path, Head(keys), src[Head(keys)], dst[Head(keys)], Absent,
                CompareLeaf(path \o "/" \o Head(keys),
                            src[Head(keys)], dst[Head(keys)]))
         \o SrcLeaves(path, Tail(keys), src, dst)
DstLeaves(path, keys, src, dst) ==
    IF keys = <<>> THEN <<>>
    ELSE DstKey(path, Head(keys), src[Head(keys)], dst[Head(keys)], Absent)
         \o DstLeaves(path, Tail(keys), src, dst)

CompareMetadata(path, src, dst) ==
    IF src = dst THEN <<>>
    ELSE SrcKey(path, "annotations", src.annotations, dst.annotations,
                AbsentRec,
                CompareAnnotations(path \o "/annotations",
                                   src.annotations, dst.annotations))
         \o SrcLeaves(path, MetadataLeaves, src, dst)
         \o DstKey(path, "annotations", src.annotations, dst.annotations,
                   AbsentRec)
         \o DstLeaves(path, MetadataLeaves, src, dst)

CompareServiceSpec(path, src, dst) ==
    IF src = dst THEN <<>>
    ELSE SrcLeaves(path, <<"clusterIP", "type">>, src, dst)
         \o DstLeaves(path, <<"clusterIP", "type">>, src, dst)

(***************************************************************************)
(* Quantities: a string is the sequence of its characters.                 *)
(***************************************************************************)
Digits == <<"0", "1", "2", "3", "4", "5", "6", "7", "8", "9">>
IsDigit(c) == \E d \in 1..10 : Digits[d] = c
DigitValue(c) == (CHOOSE d \in 1..10 : Digits[d] = c) - 1

\* s[-n:] and s[:-n]
Suffix(s, n) == IF Len(s) <= n THEN s ELSE SubSeq(s, Len(s) - n + 1, Len(s))
Prefix(s, n) == IF Len(s) <= n THEN <<>> ELSE SubSeq(s, 1, Len(s) - n)

\* int(s) of a string of decimal digits; int raises ValueError on the rest
RECURSIVE IntOf(_)
IntOf(s) ==
    IF Len(s) = 1 THEN DigitValue(s[1])
    ELSE 10 * IntOf(Prefix(s, 1)) + DigitValue(s[Len(s)])
IsInt(s) == Len(s) > 0 /\ \A i \in 1..Len(s) : IsDigit(s[i])

\* str(n) and '%d' % n
RECURSIVE Decimal(_)
Decimal(n) ==
    IF n < 10 THEN <<Digits[n + 1]>>
    ELSE Append(Decimal(n \div 10), Digits[(n % 10) + 1])
\* str(n * m): the product is an integer of any size, written here through
\* its part above and its part below 10^6
Padded(n) ==
    <<Digits[((n \div 100000) % 10) + 1], Digits[((n \div 10000) % 10) + 1],
      Digits[((n \div 1000) % 10) + 1], Digits[((n \div 100) % 10) + 1],
      Digits[((n \div 10) % 10) + 1], Digits[(n % 10) + 1]>>
DecimalProduct(n, m) ==
    LET low == n * (m % 1000000)
        high == (n * (m \div 1000000)) + (low \div 1000000)
    IN  IF high = 0 THEN Decimal(low % 1000000)
        ELSE Decimal(high) \o Padded(low % 1000000)

normalize_cpu_units(cpu) ==
    IF Suffix(cpu, 1) = <<"m">> THEN cpu
    ELSE IF ~IsInt(cpu) THEN Error("ValueError")
    ELSE Append(DecimalProduct(IntOf(cpu), 1000), "m")

\* The memory units with every factor a power of 1000
normalize_memory_units_decimal(memory) ==
    LET scaled(n, m) ==
            IF ~IsInt(Prefix(memory, n)) THEN Error("ValueError")
            ELSE DecimalProduct(IntOf(Prefix(memory, n)), m)
    IN  IF Suffix(memory, 1) = <<"m">>
        THEN IF ~IsInt(Prefix(memory, 1)) THEN Error("ValueError")
             ELSE Decimal(IntOf(Prefix(memory, 1)) \div 1000)
        ELSE IF Suffix(memory, 2) = <<"K", "i">> THEN scaled(2, 1000)
        ELSE IF Suffix(memory, 1) \in {<<"k">>, <<"K">>} THEN scaled(1, 1000)
        ELSE IF Suffix(memory, 2) = <<"M", "i">> THEN scaled(2, 1000 * 1000)
        ELSE IF Suffix(memory, 1) = <<"M">> THEN scaled(1, 1000 * 1000)
        ELSE IF Suffix(memory, 2) = <<"G", "i">> THEN scaled(2, 1000 * 1000 * 1000)
        ELSE IF Suffix(memory, 1) = <<"G">> THEN scaled(1, 1000 * 1000 * 1000)
        ELSE memory

normalize_memory_units(memory) ==
    LET scaled(n, m) ==
            IF ~IsInt(Prefix(memory, n)) THEN Error("ValueError")
            ELSE DecimalProduct(IntOf(Prefix(memory, n)), m)
    IN  IF Suffix(memory, 1) = <<"m">>
        THEN IF ~IsInt(Prefix(memory, 1)) THEN Error("ValueError")
             ELSE Decimal(IntOf(Prefix(memory, 1)) \div 1000)
        ELSE IF Suffix(memory, 2) = <<"K", "i">> THEN scaled(2, 1024)
        ELSE IF Suffix(memory, 1) \in {<<"k">>, <<"K">>} THEN scaled(1, 1000)
        ELSE IF Suffix(memory, 2) = <<"M", "i">> THEN scaled(2, 1024 * 1024)
        ELSE IF Suffix(memory, 1) = <<"M">> THEN scaled(1, 1000 * 1000)
        ELSE IF Suffix(memory, 2) = <<"G", "i">> THEN scaled(2, 1024 * 1024 * 1024)
        ELSE IF Suffix(memory, 1) = <<"G">> THEN scaled(1, 1000 * 1000 * 1000)
        ELSE memory

(***************************************************************************)
(* Semantic lists: a list is a sequence of records, the sentinel that      *)
(* marks it included.  Indices of the source count from 0.                 *)
(***************************************************************************)
SetTag == [special_list_type |-> "set"]
KeyedTag(key_map, key_name) ==
    [special_list_type |-> "keyed", key_map |-> key_map, key_name |-> key_name]
IsTag(item) == "special_list_type" \in DOMAIN item
Last(lst) == lst[Len(lst)]
Front(lst) == SubSeq(lst, 1, Len(lst) - 1)
Contains(lst, item) == \E i \in 1..Len(lst) : lst[i] = item

mark_list_is_set(lst) == Append(lst, SetTag)
list_is_set(lst) ==
    Len(lst) # 0 /\ IsTag(Last(lst)) /\ Last(lst).special_list_type = "set"

\* key_map[item[key_name]] = idx for every item in turn: the last item of a
\* key gives its index.  An item without the key raises KeyError.
KeyMap(lst, key_name) ==
    [k \in {lst[i][key_name] : i \in 1..Len(lst)} |->
        CHOOSE idx \in 0..(Len(lst) - 1) :
            /\ lst[idx + 1][key_name] = k
            /\ \A j \in (idx + 1)..(Len(lst) - 1) : lst[j + 1][key_name] # k]
KeyError(lst, key_name) == \E i \in 1..Len(lst) : key_name \notin DOMAIN lst[i]
mark_list_with_keys(lst, key_name) ==
    IF KeyError(lst, key_name)
    THEN Error("KeyError: " \o key_name)
    ELSE Append(lst, KeyedTag(KeyMap(lst, key_name), key_name))
list_has_keys(lst) ==
    Len(lst) # 0 /\ IsTag(Last(lst)) /\ Last(lst).special_list_type = "keyed"

\* strip_value of a list; of a mapping or a scalar it is the value itself.
strip_value(lst) ==
    IF Len(lst) > 0 /\ IsTag(Last(lst)) THEN Front(lst) ELSE lst

\* The keys of the members of the lists of this model, in the order the
\* differ goes through them
MemberKeys(item) ==
    IF "value" \in DOMAIN item THEN <<"name", "value">> ELSE <<"kind", "name">>
\* The keys of the mappings whose keys vary, in the order compare_dict is
\* taken to go through them (the order of a dict is not fixed by the source),
\* and those of them whose values are lists
KeyOrder ==
    <<"name", "image", "port", "protocol", "podSelector", "from", "to",
      "ports", "policyTypes", "egress", "ingress", "triggers", "template",
      "spec", "containers">>
ListKeys ==
    {"from", "to", "ports", "policyTypes", "egress", "ingress", "triggers",
     "containers"}
DictKeys == {"template", "spec"}

RECURSIVE compare_dict(_, _, _), CompareLists(_, _, _)
\* compare_values for the value of a key
CompareValues(path, key, value, other) ==
    IF value = other THEN <<>>
    ELSE IF key \in DictKeys THEN compare_dict(path, value, other)
    ELSE IF key \in ListKeys THEN CompareLists(path, value, other)
    ELSE <<Test(path, value), Replace(path, other)>>
StripValue(key, value) == IF key \in ListKeys THEN strip_value(value) ELSE value

\* compare_dict: its first loop, then its second, over the keys that are left
RECURSIVE CompareDictSrc(_, _, _, _), CompareDictDst(_, _, _, _)
CompareDictSrc(path, keys, src, dst) ==
    IF keys = <<>> THEN <<>>
    ELSE LET key == Head(keys)
         IN  (IF key \notin DOMAIN src THEN <<>>
              ELSE IF key \notin DOMAIN dst
              THEN <<Test(path \o "/" \o key, StripValue(key, src[key])),
                     Remove(path \o "/" \o key)>>
              ELSE CompareValues(path \o "/" \o key, key, src[key], dst[key]))
             \o CompareDictSrc(path, Tail(keys), src, dst)
CompareDictDst(path, keys, src, dst) ==
    IF keys = <<>> THEN <<>>
    ELSE LET key == Head(keys)
         IN  (IF key \in DOMAIN dst /\ key \notin DOMAIN src
              THEN <<Add(path \o "/" \o key, StripValue(key, dst[key]))>>
              ELSE <<>>)
             \o CompareDictDst(path, Tail(keys), src, dst)
compare_dict(path, src, dst) ==
    CompareDictSrc(path, KeyOrder, src, dst)
    \o CompareDictDst(path, KeyOrder, src, dst)

\* compare_dict on the resources of two normalized containers: limits and
\* requests are None wherever they are present
CompareResources(path, src, dst) ==
    IF src = dst THEN <<>>
    ELSE SrcKey(path, "limits", src.limits, dst.limits, AbsentRec,
                CompareLeaf(path \o "/limits", src.limits, dst.limits))
         \o SrcKey(path, "requests", src.requests, dst.requests, AbsentRec,
                   CompareLeaf(path \o "/requests", src.requests, dst.requests))
         \o DstKey(path, "limits", src.limits, dst.limits, AbsentRec)
         \o DstKey(path, "requests", src.requests, dst.requests, AbsentRec)

\* compare_dict on two normalized containers, which have the same keys
CompareContainer(path, src, dst) ==
    CompareLeaf(path \o "/name", src.name, dst.name)
    \o CompareDictSrc(path, <<"image">>, src, dst)
    \o CompareDictDst(path, <<"image">>, src, dst)
    \o CompareLists(path \o "/env", src.env, dst.env)
    \o CompareResources(path \o "/resources", src.resources, dst.resources)

\* compare_values on two members: compare_dict on their leaves, on the
\* fields of a container, or on the keys they have
CompareMember(path, value, other) ==
    IF value = other THEN <<>>
    ELSE IF "env" \in DOMAIN value THEN CompareContainer(path, value, other)
    ELSE IF DOMAIN value \cap {"port", "ports", "from", "to"} # {}
    THEN compare_dict(path, value, other)
    ELSE SrcLeaves(path, MemberKeys(value), value, other)
         \o DstLeaves(path, MemberKeys(value), value, other)

Index(path, idx) == path \o "/" \o ToString(idx)

\* compare_set_list: the first loop from index idx down to 0, then the
\* second loop from the i-th member of dst on
RECURSIVE SetRemovals(_, _, _, _), SetAdditions(_, _, _, _)
SetRemovals(path, src, dst, idx) ==
    IF idx < 0 THEN <<>>
    ELSE (IF ~Contains(dst, src[idx + 1])
          THEN <<Test(Index(path, idx), src[idx + 1]), Remove(Index(path, idx))>>
          ELSE <<>>)
         \o SetRemovals(path, src, dst, idx - 1)
SetAdditions(path, src, dst, i) ==
    IF i > Len(dst) - 1 THEN <<>>
    ELSE (IF ~Contains(src, dst[i]) THEN <<Add(path \o "/-", dst[i])>> ELSE <<>>)
         \o SetAdditions(path, src, dst, i + 1)
\* compare_set_list without its second loop
compare_set_list_removals(path, src, dst) ==
    SetRemovals(path, src, dst, Len(src) - 2)
compare_set_list(path, src, dst) ==
    SetRemovals(path, src, dst, Len(src) - 2) \o SetAdditions(path, src, dst, 1)

\* compare_keyed_list, likewise
RECURSIVE KeyedRemovals(_, _, _, _), KeyedAdditions(_, _, _, _)
KeyedRemovals(path, src, dst, idx) ==
    IF idx < 0 THEN <<>>
    ELSE LET src_item == src[idx + 1]
             key == src_item[Last(src).key_name]
             dst_key_map == Last(dst).key_map
         IN  (IF key \notin DOMAIN dst_key_map
              THEN <<Test(Index(path, idx), src_item), Remove(Index(path, idx))>>
              ELSE CompareMember(Index(path, idx), src_item,
                                 dst[dst_key_map[key] + 1]))
             \o KeyedRemovals(path, src, dst, idx - 1)
KeyedAdditions(path, src, dst, i) ==
    IF i > Len(dst) - 1 THEN <<>>
    ELSE (IF dst[i][Last(src).key_name] \notin DOMAIN Last(src).key_map
          THEN <<Add(path \o "/-", dst[i])>>
          ELSE <<>>)
         \o KeyedAdditions(path, src, dst, i + 1)
\* compare_keyed_list without its second loop
compare_keyed_list_removals(path, src, dst) ==
    KeyedRemovals(path, src, dst, Len(src) - 2)
compare_keyed_list(path, src, dst) ==
    KeyedRemovals(path, src, dst, Len(src) - 2) \o KeyedAdditions(path, src, dst, 1)

\* compare_list: the members at the same index, then the members that one
\* list has more than the other
RECURSIVE ListCommon(_, _, _, _), ListAdditions(_, _, _, _), ListRemovals(_, _, _, _)
ListCommon(path, src, dst, idx) ==
    IF idx >= Len(src) \/ idx >= Len(dst) THEN <<>>
    ELSE CompareMember(Index(path, idx), src[idx + 1], dst[idx + 1])
         \o ListCommon(path, src, dst, idx + 1)
ListAdditions(path, src, dst, idx) ==
    IF idx >= Len(dst) THEN <<>>
    ELSE <<Add(Index(path, idx), dst[idx + 1])>>
         \o ListAdditions(path, src, dst, idx + 1)
ListRemovals(path, src, dst, idx) ==
    IF idx < Len(dst) THEN <<>>
    ELSE <<Test(Index(path, idx), src[idx + 1]), Remove(Index(path, idx))>>
         \o ListRemovals(path, src, dst, idx - 1)
\* compare_list with its removals from the lowest index up
RECURSIVE ListRemovalsUp(_, _, _, _)
ListRemovalsUp(path, src, dst, idx) ==
    IF idx >= Len(src) THEN <<>>
    ELSE <<Test(Index(path, idx), src[idx + 1]), Remove(Index(path, idx))>>
         \o ListRemovalsUp(path, src, dst, idx + 1)
compare_list_ascending(path, src, dst) ==
    ListCommon(path, src, dst, 0)
    \o (IF Len(src) < Len(dst) THEN ListAdditions(path, src, dst, Len(src))
        ELSE ListRemovalsUp(path, src, dst, Len(dst)))
compare_list(path, src, dst) ==
    ListCommon(path, src, dst, 0)
    \o (IF Len(src) < Len(dst) THEN ListAdditions(path, src, dst, Len(src))
        ELSE ListRemovals(path, src, dst, Len(src) - 1))

\* compare_values on two lists: sets and keyed lists carry their sentinel
CompareLists(path, value, other) ==
    IF value = other THEN <<>>
    ELSE IF list_is_set(value) THEN compare_set_list(path, value, other)
    ELSE IF list_has_keys(value) THEN compare_keyed_list(path, value, other)
    ELSE compare_list(path, value, other)

(***************************************************************************)
(* The normalizers of the kinds with lists.  A mapping whose keys vary is  *)
(* a record whose domain is its keys.                                      *)
(***************************************************************************)
\* set_dict_defaults(d, {k: v}) for a mapping d
set_dict_defaults(d, k, v) ==
    IF k \in DOMAIN d THEN d
    ELSE [x \in DOMAIN d \cup {k} |-> IF x = k THEN v ELSE d[x]]
Without(d, k) == [x \in DOMAIN d \ {k} |-> d[x]]

\* The item after normalize_resource_units, and what the function returns:
\* it has no return statement
normalize_resource_units(item) ==
    IF item = NullRec
    THEN Error("TypeError: argument of type 'NoneType' is not iterable")
    ELSE [item |-> [k \in DOMAIN item |->
                        IF k = "memory" THEN normalize_memory_units(item[k])
                        ELSE normalize_cpu_units(item[k])],
          returned |-> NullRec]

\* resources with neither limits nor requests is the empty mapping
EmptyResources == [limits |-> AbsentRec, requests |-> AbsentRec]
\* resources after the two assignments, limits and requests being what
\* normalize_resource_units gives for each
AssignUnits(resources, limits, requests) ==
    IF resources.limits # AbsentRec /\ IsError(limits) THEN limits
    ELSE IF resources.requests # AbsentRec /\ IsError(requests) THEN requests
    ELSE [limits |-> IF resources.limits = AbsentRec THEN AbsentRec
                     ELSE limits.returned,
          requests |-> IF resources.requests = AbsentRec THEN AbsentRec
                       ELSE requests.returned]
normalize_ResourceRequirements_V1(resources) ==
    IF resources = EmptyResources THEN resources
    ELSE AssignUnits(resources, normalize_resource_units(resources.limits),
                     normalize_resource_units(resources.requests))

\* The loop of normalize_EnvVars_V1 (no member of this model has valueFrom)
EnvDefaults(env_list) ==
    [i \in 1..Len(env_list) |-> set_dict_defaults(env_list[i], "value", "")]
normalize_EnvVars_V1(env_list) ==
    mark_list_with_keys(EnvDefaults(env_list), "name")

\* Of the fields of a container the model carries name, env and resources;
\* the probes, ports, security context and volume mounts are absent on both
\* sides.  The result is the container as the call leaves it, or the error
\* the call raises.
NormalizeFields(c, resources) ==
    IF KeyError(EnvDefaults(c.env), "name") THEN Error("KeyError: name")
    ELSE IF IsError(resources) THEN resources
    ELSE [c EXCEPT !.env = normalize_EnvVars_V1(c.env),
                   !.resources = resources]
ContainerDefaults(container) ==
    set_dict_defaults(set_dict_defaults(container, "env", <<>>),
                      "resources", EmptyResources)
normalize_Container_V1(container) ==
    NormalizeFields(ContainerDefaults(container),
                    normalize_ResourceRequirements_V1(
                        ContainerDefaults(container).resources))

\* The list as the call leaves it, under `value`, or the error it raises
MarkContainers(normalized) ==
    IF \E i \in 1..Len(normalized) : IsError(normalized[i])
    THEN normalized[CHOOSE i \in 1..Len(normalized) :
                        /\ IsError(normalized[i])
                        /\ \A j \in 1..(i - 1) : ~IsError(normalized[j])]
    ELSE IF KeyError(normalized, "name") THEN Error("KeyError: name")
    ELSE [value |-> mark_list_with_keys(normalized, "name")]
normalize_ContainerList_V1(container_list) ==
    MarkContainers([i \in 1..Len(container_list) |->
                        normalize_Container_V1(container_list[i])])

normalize_NetworkPolicyPort_V1(port) == set_dict_defaults(port, "protocol", "TCP")
\* A rule with its peers (`to` or `from`) and its ports marked
NormalizeRule(rule, peers) ==
    LET r == IF peers \in DOMAIN rule
             THEN [rule EXCEPT ![peers] = mark_list_is_set(@)]
             ELSE rule
    IN  IF "ports" \in DOMAIN r
        THEN [r EXCEPT !.ports = mark_list_is_set(
                    [i \in 1..Len(@) |-> normalize_NetworkPolicyPort_V1(@[i])])]
        ELSE r
normalize_NetworkPolicyEgressRule_V1(rule) == NormalizeRule(rule, "to")
normalize_NetworkPolicyIngressRule_V1(rule) == NormalizeRule(rule, "from")

\* Of the fields of the spec the model carries egress, ingress and
\* policyTypes, whose members are Str values.  Both loops go through egress.
normalize_NetworkPolicySpec_V1(spec) ==
    LET s == set_dict_defaults(
                set_dict_defaults(set_dict_defaults(spec, "egress", <<>>),
                                  "ingress", <<>>),
                "policyTypes", <<Str("Ingress")>>)
        policyTypes == IF s.egress # <<>> /\ ~Contains(s.policyTypes, Str("Egress"))
                       THEN Append(s.policyTypes, Str("Egress"))
                       ELSE s.policyTypes
    IN  [s EXCEPT
            !.policyTypes = mark_list_is_set(policyTypes),
            !.egress = [i \in 1..Len(@) |->
                            normalize_NetworkPolicyIngressRule_V1(
                                normalize_NetworkPolicyEgressRule_V1(@[i]))]]

\* d[k] = v
SetKey(d, k, v) == [x \in DOMAIN d \cup {k} |-> IF x = k THEN v ELSE d[x]]

\* Of the defaults of normalize_PodSpec_V1 and normalize_PodTemplateSpec_V1
\* the model carries the containers; template metadata is absent
normalize_PodSpec_V1(spec) ==
    LET s == set_dict_defaults(spec, "containers", <<>>)
    IN  [s EXCEPT !.containers = normalize_ContainerList_V1(@).value]
normalize_PodTemplateSpec_V1(pod_template) ==
    LET t == set_dict_defaults(pod_template, "spec", [containers |-> <<>>])
    IN  [t EXCEPT !.spec = normalize_PodSpec_V1(@)]

\* The triggers of this model give `from` in their imageChangeParams
normalize_DeploymentConfigTrigger_V1(trigger) ==
    IF "imageChangeParams" \in DOMAIN trigger
    THEN [trigger EXCEPT !.imageChangeParams =
            SetKey([@ EXCEPT !.from = set_dict_defaults(@, "namespace", "")],
                   "lastTriggeredImage", "")]
    ELSE trigger

\* image_change_trigger_container_names, as the set of its members
ImageChangeContainerNames(triggers) ==
    UNION {IF triggers[i].type = "ImageChange"
              /\ "imageChangeParams" \in DOMAIN triggers[i]
              /\ "containerNames" \in DOMAIN triggers[i].imageChangeParams
           THEN {triggers[i].imageChangeParams.containerNames[j] :
                    j \in 1..Len(triggers[i].imageChangeParams.containerNames)}
           ELSE {} : i \in 1..Len(triggers)}

\* The last loop of normalize_DeploymentConfigSpec_V1 with every container
\* blanked once an ImageChange trigger exists
BlankAllImages(containers, triggers) ==
    [i \in 1..Len(containers) |->
        IF i < Len(containers)
           /\ \E j \in 1..Len(triggers) : triggers[j].type = "ImageChange"
        THEN SetKey(containers[i], "image", "")
        ELSE containers[i]]
\* The last loop of normalize_DeploymentConfigSpec_V1: containers[:-1]
BlankImages(containers, triggers) ==
    [i \in 1..Len(containers) |->
        IF i < Len(containers)
           /\ containers[i].name \in ImageChangeContainerNames(triggers)
        THEN SetKey(containers[i], "image", "")
        ELSE containers[i]]

\* Of the defaults of the spec the model carries template and triggers
normalize_DeploymentConfigSpec_V1(spec) ==
    LET s == set_dict_defaults(
                set_dict_defaults(spec, "template", [spec |-> [containers |-> <<>>]]),
                "triggers", <<[type |-> "ConfigChange"]>>)
        template == normalize_PodTemplateSpec_V1(s.template)
        triggers == [i \in 1..Len(s.triggers) |->
                        normalize_DeploymentConfigTrigger_V1(s.triggers[i])]
    IN  [s EXCEPT
            !.triggers = triggers,
            !.template = [template EXCEPT !.spec.containers =
                            BlankImages(@, triggers)]]

normalize_Subject_V1(subject) ==
    LET s == IF "apiGroup" \in DOMAIN subject
                /\ subject.apiGroup = "rbac.authorization.k8s.io"
             THEN Without(subject, "apiGroup")
             ELSE subject
    IN  IF "kind" \in DOMAIN s /\ s.kind = "SystemGroup"
        THEN [s EXCEPT !.kind = "Group"]
        ELSE s

normalize_RoleRef_V1(ref) ==
    [ref EXCEPT !.apiGroup = IF @ = Absent THEN "rbac.authorization.k8s.io" ELSE @,
                !.kind = IF @ = Absent THEN "ClusterRole" ELSE @]

RoleBinding(metadata, roleRef, subjects) ==
    [kind |-> "RoleBinding", metadata |-> metadata, roleRef |-> roleRef,
     subjects |-> subjects]

normalize_RoleBinding_V1(role_binding) ==
    [role_binding EXCEPT
        !.metadata = normalize_ObjectMeta_V1(@),
        !.roleRef = normalize_RoleRef_V1(@),
        !.subjects = mark_list_is_set(
                        [i \in 1..Len(@) |-> normalize_Subject_V1(@[i])])]

\* normalize_resource: the result for a (deep copy of a) document, or Error
\* when merge_dict raises.  ConfigMap has no normalize_resource_<kind> method.
normalize_resource(resource) ==
    LET r == normalize_override_dynamic_config(resource)
    IN  IF IsError(r) THEN r
        ELSE IF r.kind = "Service" THEN normalize_Service_V1(r)
        ELSE IF r.kind = "RoleBinding" THEN normalize_RoleBinding_V1(r)
        ELSE r

\* make_field_patch(field, current, config) for the top-level fields of the
\* documents of this model.
make_field_patch(field, current, config) ==
    IF field = "metadata" THEN CompareMetadata("/metadata", current, config)
    ELSE IF field = "spec" /\ DOMAIN current \cap {"policyTypes", "triggers"} # {}
         THEN compare_dict("/spec", current, config)
    ELSE IF field = "spec" THEN CompareServiceSpec("/spec", current, config)
    ELSE IF field = "roleRef"
         THEN SrcLeaves("/roleRef", <<"apiGroup", "kind", "name">>, current, config)
              \o DstLeaves("/roleRef", <<"apiGroup", "kind", "name">>, current, config)
    ELSE IF field \in {"subjects", "env", "containers", "ingress"}
         THEN CompareLists("/" \o field, current, config)
    ELSE CompareLeaf("/" \o field, current, config)

(***************************************************************************)
(* compare_resource                                                        *)
(***************************************************************************)
\* comparison_fields with every field of the documents for every kind
comparison_fields_of_any_kind(kind) ==
    IF kind \in {"ClusterRoleBinding", "RoleBinding"}
    THEN <<"metadata", "roleRef", "subjects">>
    ELSE <<"metadata", "data", "spec">>
comparison_fields(kind) ==
    IF kind \in {"ClusterRoleBinding", "RoleBinding"}
    THEN <<"metadata", "roleRef", "subjects">>
    ELSE IF kind \in {"ConfigMap", "Secret"} THEN <<"metadata", "data">>
    ELSE <<"metadata", "spec">>

\* A normalized binding has its roleRef and its subjects
FieldAbsent(field) == IF field = "data" THEN Absent ELSE AbsentRec
HasField(doc, field) ==
    field \in {"roleRef", "subjects"} \/ doc[field] # FieldAbsent(field)

FieldOps(field, current, config) ==
    IF HasField(current, field) /\ ~HasField(config, field)
    THEN <<Test("/" \o field, current[field]), Remove("/" \o field)>>
    ELSE IF HasField(config, field) /\ ~HasField(current, field)
    THEN <<Add("/" \o field, config[field])>>
    ELSE IF HasField(config, field) /\ HasField(current, field)
            /\ config[field] # current[field]
    THEN make_field_patch(field, current[field], config[field])
    ELSE <<>>

RECURSIVE FieldsOps(_, _, _)
FieldsOps(fields, current, config) ==
    IF fields = <<>> THEN <<>>
    ELSE FieldOps(Head(fields), current, config)
         \o FieldsOps(Tail(fields), current, config)

\* compare_resource(resource, compare_to) of an instance whose self.resource
\* has kind selfKind: the patch (a sequence of operations), or Error when
\* normalization raises.
compare_resource(selfKind, resource, compare_to) ==
    LET config == normalize_resource(compare_to)
        current == normalize_resource(resource)
    IN  IF IsError(config) THEN config
        ELSE IF IsError(current) THEN current
        ELSE [ops |-> FieldsOps(comparison_fields(selfKind), current, config)]

(***************************************************************************)
(* The inputs of a run                                                      *)
(***************************************************************************)
Kinds == {"ConfigMap", "Service"}
Actions == {"apply", "create", "patch", "replace", "delete", "ignore"}
Namespaces == {Null, "ns1"}

\* The body of a well-formed desired document of a kind.
Bodies(kind) ==
    IF kind = "ConfigMap"
    THEN {[labels |-> Absent, data |-> "d1", spec |-> AbsentRec],
          [labels |-> "app", data |-> "d1", spec |-> AbsentRec],
          [labels |-> Absent, data |-> "d2", spec |-> AbsentRec]}
    ELSE {[labels |-> Absent, data |-> Absent, spec |-> ServiceSpec(Absent, Absent)],
          [labels |-> Absent, data |-> Absent, spec |-> ServiceSpec("NodePort", Absent)],
          [labels |-> Absent, data |-> Absent, spec |-> ServiceSpec(Absent, "10.0.0.42")]}
FirstBody(kind) ==
    IF kind = "ConfigMap" THEN [labels |-> Absent, data |-> "d1", spec |-> AbsentRec]
    ELSE [labels |-> Absent, data |-> Absent, spec |-> ServiceSpec(Absent, Absent)]

Config(kind, ns, ann, b) ==
    Document(kind, Metadata("web", ns, b.labels, ann), b.data, b.spec)

\* module.params['resource'] of a run against the object (kind, "web") of
\* namespace ns: well formed (the namespace left to the parameter or, for one
\* of them, given in metadata), with metadata.annotations null or the empty
\* mapping, or lacking one of kind, metadata, metadata.name.
Resources(kind, ns) ==
    {Config(kind, Absent, AbsentRec, b) : b \in Bodies(kind)}
    \cup {Config(kind, n, AbsentRec, FirstBody(kind)) : n \in {ns} \ {Null}}
    \cup {Config(kind, Absent, NullRec, FirstBody(kind))}
    \cup {Config(kind, Absent, EmptyAnnotations, FirstBody(kind))}
    \cup {Document(Absent, Metadata("web", Absent, Absent, AbsentRec), "d1", AbsentRec),
          Document(kind, AbsentRec, "d1", AbsentRec),
          Document(kind, Metadata(Absent, Absent, Absent, AbsentRec), "d1", AbsentRec)}

\* module.params['namespace'] that goes with a resource: the namespace comes
\* from the resource's metadata or from the parameter.
ParamNamespaces(resource, ns) ==
    IF resource.metadata # AbsentRec /\ resource.metadata.namespace \notin {Absent, Null}
    THEN {Null}
    ELSE {ns}

Params ==
    [action : Actions, check_mode : BOOLEAN, fail_on_change : BOOLEAN,
     generate_resources : BOOLEAN]

(***************************************************************************)
(* The cluster behind `oc`                                                 *)
(***************************************************************************)
NextVersion(rv) == IF rv = "1" THEN "2" ELSE "3"

StripLac(doc) ==
    IF doc.metadata.annotations = AbsentRec \/ ~IsMapping(doc.metadata.annotations)
    THEN [doc EXCEPT !.metadata.annotations = AbsentRec]
    ELSE IF doc.metadata.annotations.other = Absent
    THEN [doc EXCEPT !.metadata.annotations = AbsentRec]
    ELSE [doc EXCEPT !.metadata.annotations.lac = AbsentRec]

\* The object the API server keeps for a submitted document: server-assigned
\* metadata, defaults of the kind, and the given last-applied-configuration.
Stored(doc, ns, rv, lac) ==
    LET other == IF IsMapping(doc.metadata.annotations)
                 THEN doc.metadata.annotations.other ELSE Absent
        ann == IF lac = AbsentRec /\ other = Absent THEN AbsentRec
               ELSE Annotations(lac, other)
    IN  [doc EXCEPT
            !.metadata = [@ EXCEPT !.annotations = ann,
                                   !.creationTimestamp = "t0",
                                   !.generation = "1",
                                   !.namespace = IF ns = Null THEN "default" ELSE ns,
                                   !.resourceVersion = rv,
                                   !.selfLink = "/api/web",
                                   !.uid = "u1"],
            !.spec = IF doc.kind = "Service"
                     THEN [clusterIP |-> IF @.clusterIP = Absent THEN "10.0.0.1"
                                         ELSE @.clusterIP,
                           type |-> IF @.type = Absent THEN "ClusterIP" ELSE @.type]
                     ELSE @,
            !.status = IF doc.kind = "Service" THEN "st" ELSE Absent]

\* The annotation a submitted document carries, if it is a JSON text.
GivenLac(doc) ==
    IF IsMapping(doc.metadata.annotations) /\ IsJson(doc.metadata.annotations.lac)
    THEN doc.metadata.annotations.lac
    ELSE AbsentRec

\* A strategic merge of the patch document into the object: the keys the
\* patch gives replace the object's.
PatchMerge(obj, p) ==
    [obj EXCEPT
        !.metadata.annotations =
            IF p.metadata.annotations = NullRec THEN AbsentRec ELSE @,
        !.metadata.labels = IF p.metadata.labels = Absent THEN @ ELSE p.metadata.labels,
        !.metadata.namespace =
            IF p.metadata.namespace = Absent THEN @
            ELSE IF p.metadata.namespace = Null THEN Absent
            ELSE p.metadata.namespace,
        !.data = IF p.data = Absent THEN @ ELSE p.data,
        !.spec = IF p.spec = AbsentRec \/ @ = AbsentRec THEN @
                 ELSE [clusterIP |-> IF p.spec.clusterIP = Absent THEN @.clusterIP
                                     ELSE p.spec.clusterIP,
                       type |-> IF p.spec.type = Absent THEN @.type ELSE p.spec.type]]

\* What a successful `oc <cmd> -f -` leaves in the cluster, or "refused" when
\* the API server rejects it for the state of the cluster.
Served(cmd, save_config, doc, ns, cl) ==
    LET rv == IF cl = None THEN "1" ELSE NextVersion(cl.metadata.resourceVersion)
    IN  CASE cmd = "create" ->
               IF cl = None THEN Stored(doc, ns, rv, GivenLac(doc)) ELSE Error("exists")
          [] cmd = "apply" -> Stored(doc, ns, rv, Dumps(StripLac(doc)))
          [] cmd = "replace" ->
               IF cl = None THEN Error("not found")
               ELSE Stored(doc, ns, rv,
                           IF save_config THEN Dumps(StripLac(doc)) ELSE GivenLac(doc))
          [] cmd = "patch" ->
               IF cl = None THEN Error("not found")
               ELSE [PatchMerge(cl, doc) EXCEPT !.metadata.resourceVersion = rv]
          [] cmd = "delete" ->
               IF cl = None THEN Error("not found") ELSE None

(***************************************************************************)
(* The run                                                                  *)
(***************************************************************************)
Truthy(s) == s \notin {Null, "", Absent}
NoPatch == NullRec
\* Python's `not patch`: None or the empty list
NotPatch(p) == p = NoPatch \/ p.ops = <<>>

Invocation(cmd, local, ns, save_config, data) ==
    [cmd |-> cmd, local |-> local, namespace |-> ns,
     save_config |-> save_config, data |-> data]
Mutating(i) == i.cmd \in {"apply", "create", "replace", "delete"}
                \/ (i.cmd = "patch" /\ ~i.local)

\* The file name with the kind ahead of the scope
ManifestNameKindFirst(scope, kind, name) ==
    "manifests/" \o kind \o "_" \o scope \o "_" \o name \o ".json"

ManifestName(scope, kind, name) ==
    "manifests/" \o scope \o "_" \o kind \o "_" \o name \o ".json"

\* The object under (kind, "web") of the cluster is the target of every run of
\* a behaviour; it starts absent, or as the API server would hold it after a
\* create (no last-applied-configuration) or an apply of some configuration.
InitObjects(kind, ns) ==
    {None} \cup
    {Stored(Config(kind, ns, AbsentRec, b), ns, "1", lac) :
        b \in Bodies(kind),
        lac \in {AbsentRec}
                \cup {Dumps(Config(kind, ns, AbsentRec, c)) : c \in Bodies(kind)}}

Init ==
    /\ \E kind \in Kinds, ns \in Namespaces :
          cluster \in {[kind |-> kind, namespace |-> ns, object |-> o] :
                          o \in InitObjects(kind, ns)}
    /\ scratch = {}
    /\ runs = 0
    /\ pc = "idle"
    /\ params = None
    /\ self = None
    /\ loc = None
    /\ invocations = <<>>
    /\ written = <<>>
    /\ result = None
    /\ prev = None

\* What is remembered of a run that ended: its parameters when it was a
\* create that reported a change after a single create invocation; otherwise
\* None.
Summary(p, res, invs) ==
    IF /\ res.status = "ok"
       /\ p.action = "create"
       /\ res.changed
       /\ Len(invs) = 2 /\ invs[2].cmd = "create"
    THEN p
    ELSE None

\* The run is over: res went to the caller.
Finish(res) ==
    /\ result' = res
    /\ prev' = prev
    /\ pc' = "done"

\* __init__, lines 1071-1076: the message of the exception raised, or ""
InitRaises(resource) ==
    IF resource.kind = Absent THEN "resource must define kind"
    ELSE IF resource.metadata = AbsentRec THEN "resource must include metadata"
    ELSE IF resource.metadata.name = Absent THEN "resource metadata must include name"
    ELSE ""

\* __init__, lines 1078-1082: self.namespace and self.resource of a resource
\* that passed the tests above, ns being module.params['namespace']
InitNamespace(resource, ns) ==
    IF resource.metadata.namespace # Absent THEN resource.metadata.namespace ELSE ns
InitResource(resource, ns) ==
    IF resource.metadata.namespace # Absent THEN resource
    ELSE [resource EXCEPT !.metadata.namespace = ns]

\* run_module up to the end of OpenShiftProvision.__init__, which is called
\* outside the try block of run_module.
Construct ==
    /\ pc = "idle"
    /\ runs < MaxRuns
    /\ \E p \in Params, resource \in Resources(cluster.kind, cluster.namespace) :
       \E ns \in ParamNamespaces(resource, cluster.namespace) :
          LET raised == InitRaises(resource)
          IN  /\ params' = [action |-> p.action, check_mode |-> p.check_mode,
                            fail_on_change |-> p.fail_on_change,
                            generate_resources |-> p.generate_resources,
                            namespace |-> ns, resource |-> resource]
              /\ runs' = runs + 1
              /\ IF raised # ""
                 THEN /\ result' = [status |-> "traceback", msg |-> Str(raised)]
                      /\ prev' = prev
                      /\ pc' = "done"
                      /\ self' = None
                      /\ loc' = None
                 ELSE /\ result' = None
                      /\ prev' = prev
                      /\ pc' = "provision"
                      /\ self' = [action |-> p.action,
                                  resource |-> InitResource(resource, ns),
                                  patch |-> NoPatch, changed |-> FALSE,
                                  namespace |-> InitNamespace(resource, ns)]
                      /\ loc' = None
    /\ UNCHANGED <<cluster, scratch, invocations, written>>

\* The value of a key of the current spec wherever it has one
OverwriteKey(resource_spec, current_spec, key) ==
    IF current_spec # AbsentRec /\ current_spec[key] # Absent
    THEN current_spec[key]
    ELSE resource_spec[key]

\* The value of a key of the current spec where the resource has none
AdoptKey(resource_spec, current_spec, key) ==
    IF resource_spec[key] = Absent /\ current_spec # AbsentRec
       /\ current_spec[key] # Absent
    THEN current_spec[key]
    ELSE resource_spec[key]
\* set_dynamic_values for the kinds of this model
set_dynamic_values(resource, current_resource) ==
    IF resource.kind = "PersistentVolumeClaim"
    THEN [resource EXCEPT
            !.spec.storageClassName =
                AdoptKey(resource.spec, current_resource.spec, "storageClassName"),
            !.spec.volumeName =
                AdoptKey(resource.spec, current_resource.spec, "volumeName")]
    ELSE IF resource.kind = "Service"
    THEN [resource EXCEPT
            !.spec.clusterIP =
                AdoptKey(resource.spec, current_resource.spec, "clusterIP")]
    ELSE resource

\* get_current_resource: `oc get` fails exactly when the cluster does not hold
\* the object.
get_current_resource(obj, namespace) ==
    IF obj = None THEN None
    ELSE IF Truthy(namespace) THEN [obj EXCEPT !.metadata.namespace = namespace]
    ELSE obj

\* get_resource_version_and_last_applied_configuration: what is left of the
\* resource after the two pops, and the popped values.
PoppedResource(resource) ==
    IF resource = None THEN None
    ELSE [resource EXCEPT
            !.metadata.resourceVersion = Absent,
            !.metadata.annotations =
                IF IsMapping(@) THEN [@ EXCEPT !.lac = AbsentRec] ELSE @]
PoppedVersion(resource) ==
    IF resource = None \/ resource.metadata.resourceVersion = Absent THEN Null
    ELSE resource.metadata.resourceVersion
PoppedLastApplied(resource) ==
    IF resource = None THEN NullRec
    ELSE IF IsMapping(resource.metadata.annotations)
            /\ resource.metadata.annotations.lac # AbsentRec
         THEN resource.metadata.annotations.lac
         ELSE NullRec

\* provision(), lines 1408-1415
Fetch ==
    /\ pc = "provision"
    /\ LET fetched == get_current_resource(cluster.object, self.namespace)
           current == PoppedResource(fetched)
       IN  /\ invocations' = Append(invocations,
                 Invocation("get", FALSE,
                            IF Truthy(self.namespace) THEN self.namespace ELSE Absent,
                            FALSE, AbsentRec))
           /\ loc' = [current_resource |-> current,
                      current_resource_version |-> PoppedVersion(fetched),
                      current_last_applied_configuration |-> PoppedLastApplied(fetched),
                      patch |-> NoPatch,
                      reset_last_applied_configuration |-> FALSE,
                      exc |-> NullRec]
           /\ self' = IF current # None /\ self.action \in {"apply", "replace"}
                      THEN [self EXCEPT !.resource = set_dynamic_values(@, current)]
                      ELSE self
    /\ pc' = "decide"
    /\ UNCHANGED <<cluster, scratch, runs, params, written, result, prev>>

\* A step of provision() that touches only the instance and the locals
Goto(to, self2, loc2) ==
    /\ pc' = to
    /\ self' = self2
    /\ loc' = loc2
    /\ UNCHANGED <<cluster, scratch, runs, params, invocations,
                   written, result, prev>>
Raise(msg, self2, loc2) == Goto("except", self2, [loc2 EXCEPT !.exc = msg])

\* provision(), lines 1417-1421, without the adoption of the current resource
DecideCreateAnyway ==
    /\ pc = "decide"
    /\ self.action = "create"
    /\ Goto("commit", self, loc)

\* provision(), lines 1417-1421
DecideCreate ==
    /\ pc = "decide"
    /\ self.action = "create"
    /\ IF loc.current_resource # None
       THEN Goto(IF params.generate_resources THEN "commit" ELSE "exit",
                 [self EXCEPT !.resource = loc.current_resource], loc)
       ELSE Goto("commit", self, loc)

\* The test of lines 1431-1435 on the patch compare_resource returned for the
\* current resource against its last-applied-configuration.
SwitchToReplace(patch) == NotPatch(patch)

\* provision(), lines 1422-1437
DecideApply ==
    /\ pc = "decide"
    /\ self.action = "apply"
    /\ LET cur == loc.current_resource
           lac == loc.current_last_applied_configuration
           p1 == compare_resource(self.resource.kind, cur, self.resource)
       IN  IF cur = None THEN Goto("commit", self, loc)
           ELSE IF IsError(p1) THEN Raise(Str(p1.msg), self, loc)
           ELSE LET self1 == IF NotPatch(p1) THEN [self EXCEPT !.resource = cur]
                             ELSE self
                    loc1 == [loc EXCEPT !.patch = p1]
                    asked == Truthy(loc.current_resource_version) /\ IsJson(lac)
                    p2 == compare_resource(self1.resource.kind, cur, Loads(lac))
                IN  IF NotPatch(p1) /\ ~params.generate_resources
                    THEN Goto("exit", self1, loc1)
                    ELSE IF asked /\ IsError(p2) THEN Raise(Str(p2.msg), self1, loc1)
                    ELSE IF asked /\ SwitchToReplace(p2)
                    THEN Goto("commit", [self1 EXCEPT !.action = "replace"],
                              [loc1 EXCEPT !.reset_last_applied_configuration = TRUE])
                    ELSE Goto("commit", self1, loc1)

\* check_patch, lines 1331-1347, and lines 1440-1443 of provision(): the
\* resource is there.
PatchFound ==
    LET cur == [loc.current_resource EXCEPT !.metadata.namespace = ""]
        loc1 == [loc EXCEPT !.current_resource = cur]
        stdout == Dumps(PatchMerge(cur, self.resource))
        p == compare_resource(self.resource.kind, cur, Loads(stdout))
    IN  /\ scratch' = scratch \cup {"tmp.json"}
        /\ invocations' = Append(invocations,
                Invocation("patch", TRUE, Absent, FALSE, Dumps(self.resource)))
        /\ UNCHANGED <<cluster, runs, params, written>>
        /\ \E rc \in {0, 1} :
              IF rc # 0
              THEN /\ Finish([status |-> "failed",
                              msg |-> Str("oc patch --local"), rc |-> rc])
                   /\ self' = self
                   /\ loc' = loc1
              ELSE /\ UNCHANGED <<result, prev>>
                   /\ IF IsError(p)
                      THEN /\ pc' = "except"
                           /\ self' = self
                           /\ loc' = [loc1 EXCEPT !.exc = Str(p.msg)]
                      ELSE IF NotPatch(p)
                      THEN /\ pc' = IF params.generate_resources
                                    THEN "commit" ELSE "exit"
                           /\ self' = [self EXCEPT !.resource = cur]
                           /\ loc' = [loc1 EXCEPT !.patch = p]
                      ELSE /\ pc' = "commit"
                           /\ self' = self
                           /\ loc' = [loc1 EXCEPT !.patch = p]

\* check_patch, lines 1326-1329
NotFound(resource) ==
    Str("Cannot patch " \o resource.kind \o " " \o resource.metadata.name
        \o ", resource not found")

\* The same with the scratch file made ahead of the test of lines 1326-1329
DecidePatchLateTest ==
    /\ pc = "decide"
    /\ self.action = "patch"
    /\ IF loc.current_resource = None
       THEN /\ scratch' = scratch \cup {"tmp.json"}
            /\ pc' = "except"
            /\ self' = self
            /\ loc' = [loc EXCEPT !.exc = NotFound(self.resource)]
            /\ UNCHANGED <<cluster, runs, params, invocations, written, result, prev>>
       ELSE PatchFound

\* provision(), lines 1438-1443, with check_patch
DecidePatch ==
    /\ pc = "decide"
    /\ self.action = "patch"
    /\ IF loc.current_resource = None
       THEN Raise(NotFound(self.resource), self, loc)
       ELSE PatchFound

\* provision(), lines 1444-1452
DecideReplace ==
    /\ pc = "decide"
    /\ self.action = "replace"
    /\ LET cur == loc.current_resource
           p == compare_resource(self.resource.kind, cur, self.resource)
       IN  IF cur = None THEN Goto("commit", [self EXCEPT !.action = "create"], loc)
           ELSE IF IsError(p) THEN Raise(Str(p.msg), self, loc)
           ELSE IF NotPatch(p)
           THEN Goto(IF params.generate_resources THEN "commit" ELSE "exit",
                     [self EXCEPT !.resource = cur], [loc EXCEPT !.patch = p])
           ELSE Goto("commit", self, [loc EXCEPT !.patch = p])

\* The same lines without the return of a delete that finds nothing
DecideDeleteAnyway ==
    /\ pc = "decide"
    /\ self.action = "delete"
    /\ Goto("commit", self, loc)

\* provision(), lines 1453-1456
DecideDelete ==
    /\ pc = "decide"
    /\ self.action = "delete"
    /\ IF loc.current_resource = None /\ ~params.generate_resources
       THEN Goto("exit", self, loc)
       ELSE Goto("commit", self, loc)

\* provision(), lines 1457-1458
DecideIgnore ==
    /\ pc = "decide"
    /\ self.action = "ignore"
    /\ Goto("exit", self, loc)

\* The same lines without the return of check mode
CommitAndGoOn ==
    /\ pc = "commit"
    /\ IF params.fail_on_change
       THEN Raise(Dumps(loc.patch), self, loc)
       ELSE Goto("generate",
                 [self EXCEPT !.patch = loc.patch, !.changed = TRUE], loc)

\* provision(), lines 1460-1469
Commit ==
    /\ pc = "commit"
    /\ IF params.fail_on_change
       THEN Raise(Dumps(loc.patch), self, loc)
       ELSE Goto(IF params.check_mode THEN "exit" ELSE "generate",
                 [self EXCEPT !.patch = loc.patch, !.changed = TRUE], loc)

ManifestOf(instance) ==
    ManifestName(IF ~Truthy(instance.namespace) THEN "cluster" ELSE instance.namespace,
                 instance.resource.kind, instance.resource.metadata.name)

\* The same lines without the return that ends them
GenerateAndGoOn ==
    /\ pc = "generate"
    /\ written' = IF params.generate_resources
                  THEN Append(written, ManifestOf(self)) ELSE written
    /\ pc' = "mutate"
    /\ UNCHANGED <<cluster, scratch, runs, params, self, loc, invocations,
                   result, prev>>

\* provision(), lines 1471-1484
Generate ==
    /\ pc = "generate"
    /\ IF params.generate_resources
       THEN /\ written' = Append(written, ManifestOf(self))
            /\ pc' = "exit"
       ELSE /\ written' = written
            /\ pc' = "mutate"
    /\ UNCHANGED <<cluster, scratch, runs, params, self, loc, invocations,
                   result, prev>>

\* The merge_dict of lines 1500-1507 on the copy of self.resource
AttachApplyMetadata(resource, version, last_applied) ==
    LET a == resource.metadata.annotations
    IN  IF a = AbsentRec
        THEN [resource EXCEPT !.metadata.annotations = Annotations(last_applied, Absent),
                              !.metadata.resourceVersion = version]
        ELSE IF ~IsMapping(a) THEN Error("Unable to merge NoneType with dict")
        ELSE IF a = EmptyAnnotations
        THEN [resource EXCEPT !.metadata.resourceVersion = version]
        ELSE [resource EXCEPT !.metadata.annotations.lac = last_applied,
                              !.metadata.resourceVersion = version]

\* provision(), lines 1486-1513
Mutate ==
    /\ pc = "mutate"
    /\ LET ns == IF Truthy(self.namespace) THEN self.namespace ELSE Absent
           resource ==
               IF self.action = "apply"
               THEN AttachApplyMetadata(self.resource, loc.current_resource_version,
                                        loc.current_last_applied_configuration)
               ELSE self.resource
           inv == Invocation(self.action, FALSE, ns,
                             self.action # "patch"
                               /\ loc.reset_last_applied_configuration,
                             Dumps(resource))
           served == Served(self.action, inv.save_config, resource,
                            cluster.namespace, cluster.object)
       IN  IF IsError(resource)
           THEN /\ pc' = "except"
                /\ loc' = [loc EXCEPT !.exc = Str(resource.msg)]
                /\ UNCHANGED <<cluster, scratch, runs, params, self,
                               invocations, written, result, prev>>
           ELSE /\ invocations' = Append(invocations, inv)
                /\ UNCHANGED <<scratch, runs, params, written>>
                /\ \E rc \in {0, 1} :
                      IF rc # 0 \/ IsError(served)
                      THEN /\ Finish([status |-> "failed",
                                      msg |-> Str("oc " \o self.action), rc |-> 1])
                           /\ UNCHANGED <<cluster, self, loc>>
                      ELSE /\ cluster' = [cluster EXCEPT !.object = served]
                           /\ pc' = "exit"
                           /\ UNCHANGED <<self, loc, result, prev>>

\* run_module, lines 1570-1575
ExitJson ==
    /\ pc = "exit"
    /\ Finish([status |-> "ok", action |-> self.action, changed |-> self.changed,
               patch |-> self.patch, resource |-> self.resource])
    /\ UNCHANGED <<cluster, scratch, runs, params, self, loc, invocations, written>>

\* run_module, lines 1562-1568
FailJson ==
    /\ pc = "except"
    /\ Finish([status |-> "failed", msg |-> loc.exc, action |-> self.action,
               resource |-> self.resource])
    /\ UNCHANGED <<cluster, scratch, runs, params, self, loc, invocations, written>>

\* main() returns and the process of the run ends: its parameters, instance,
\* locals and output are gone, the cluster stays as the run left it.
Terminate ==
    /\ pc = "done"
    /\ pc' = "idle"
    /\ params' = None
    /\ result' = None
    /\ invocations' = <<>>
    /\ written' = <<>>
    /\ scratch' = {}
    /\ self' = None
    /\ loc' = None
    /\ prev' = Summary(params, result, invocations)
    /\ UNCHANGED <<cluster, runs>>

Next ==
    \/ Construct
    \/ Fetch
    \/ DecideCreate
    \/ DecideApply
    \/ DecidePatch
    \/ DecideReplace
    \/ DecideDelete
    \/ DecideIgnore
    \/ Commit
    \/ Generate
    \/ Mutate
    \/ ExitJson
    \/ FailJson
    \/ Terminate

Spec == Init /\ [][Next]_vars

(***************************************************************************)
(* Properties                                                              *)
(***************************************************************************)
\* The run went through the constructor and has ended.
Ended == pc = "done" /\ loc # None
Cmds == [i \in 1..Len(invocations) |-> invocations[i].cmd]
NoMutation == \A i \in 1..Len(invocations) : ~Mutating(invocations[i])
\* The desired resource after Dynamic-Value Adoption against the observed one
Desired ==
    set_dynamic_values(InitResource(params.resource, params.namespace),
                       loc.current_resource)
\* The diff of the observed resource against the desired one
Diff == compare_resource(params.resource.kind, loc.current_resource, Desired)
ObservedPresent == loc.current_resource # None

\* C1 (as stated; refuted): an apply or replace run that finds the resource
\* with normalize(desired) = normalize(observed) after adoption ends with an
\* empty diff, changed = false and no mutating invocation, whatever check_mode
\* and generate_resources are.
C1_NoChangeOnEmptyDiff ==
    (/\ Ended
     /\ params.action \in {"apply", "replace"}
     /\ ~params.fail_on_change
     /\ ObservedPresent
     /\ ~IsError(Diff)
     /\ Diff.ops = <<>>)
    => /\ result.status = "ok"
       /\ ~result.changed
       /\ NotPatch(result.patch)
       /\ NoMutation

\* The observed resource against its own last-applied-configuration
HasLastApplied ==
    /\ Truthy(loc.current_resource_version)
    /\ IsJson(loc.current_last_applied_configuration)
LastAppliedDiff ==
    compare_resource(params.resource.kind, loc.current_resource,
                     Loads(loc.current_last_applied_configuration))

\* C2 (as stated; refuted): an apply run that finds the resource, with a
\* non-empty diff against the desired one, ends as replace, and passes
\* --save-config to its mutation, exactly when the observed resource differs
\* from its own last-applied-configuration.
C2_SwitchOnDrift ==
    (/\ Ended
     /\ params.action = "apply"
     /\ ObservedPresent
     /\ ~IsError(Diff)
     /\ Diff.ops # <<>>
     /\ HasLastApplied
     /\ ~IsError(LastAppliedDiff))
    => /\ (self.action = "replace") <=> (LastAppliedDiff.ops # <<>>)
       /\ \A i \in 1..Len(invocations) :
             Mutating(invocations[i])
             => /\ invocations[i].cmd = self.action
                /\ invocations[i].save_config <=> (LastAppliedDiff.ops # <<>>)

\* The run of a plain create: no check mode, no fail_on_change, no generation
PlainCreate ==
    /\ params.action = "create"
    /\ ~params.check_mode /\ ~params.fail_on_change /\ ~params.generate_resources
\* The call of this run is the call of the run before, which created the resource.
SecondCreate == Ended /\ prev # None /\ prev = params

\* C3: a plain create that finds no resource and succeeds reports
\* changed = true after one get and one create, and the cluster then holds the
\* resource; the same call made again next reports changed = false, invokes
\* nothing but get, and returns the observed resource.
C3_IdempotentCreate ==
    /\ (Ended /\ PlainCreate /\ ~ObservedPresent /\ result.status = "ok")
       => /\ result.changed
          /\ Cmds = <<"get", "create">>
          /\ cluster.object # None
    /\ SecondCreate
       => /\ PlainCreate
          /\ ObservedPresent
          /\ result.status = "ok"
          /\ ~result.changed
          /\ Cmds = <<"get">>
          /\ result.resource = loc.current_resource
C3_Witness ==
    /\ SecondCreate
    /\ result.status = "ok"
    /\ ~result.changed
    /\ cluster.object # None

\* The scope of the manifest of this run's resource
Scope ==
    IF Truthy(InitNamespace(params.resource, params.namespace))
    THEN InitNamespace(params.resource, params.namespace)
    ELSE "cluster"
TheManifest ==
    <<"manifests/" \o Scope \o "_" \o params.resource.kind \o "_"
        \o params.resource.metadata.name \o ".json">>

\* C4 (as stated; refuted): with generate_resources = true every call that
\* does not fail writes exactly one manifest file, named
\* manifests/<scope>_<kind>_<name>.json, for every action and in and out of
\* check mode.
C4_OneManifestPerCall ==
    (Ended /\ params.generate_resources /\ result.status = "ok")
    => written = TheManifest

\* C4 (amended): a call writes the one manifest file
\* manifests/<scope>_<kind>_<name>.json when generate_resources = true, the
\* action is not ignore, the call is not in check mode and it does not fail;
\* every other call writes no file.
C4_OneManifestWhenGenerating ==
    Ended
    => written = IF /\ params.generate_resources
                    /\ params.action # "ignore"
                    /\ ~params.check_mode
                    /\ result.status = "ok"
                 THEN TheManifest
                 ELSE <<>>
C4_Witness ==
    /\ Ended
    /\ params.generate_resources
    /\ params.action = "delete"
    /\ Truthy(params.namespace)
    /\ ~ObservedPresent
    /\ written = TheManifest

\* C5: a run with generate_resources = true never makes a mutating
\* invocation (apply, create, replace, delete, patch without --local),
\* whatever its action and whatever it observed.
C5_GenerateNeverMutates ==
    (params # None /\ params.generate_resources) => NoMutation
C5_Witness ==
    /\ Ended
    /\ params.generate_resources
    /\ params.action = "apply"
    /\ ObservedPresent
    /\ ~IsError(Diff)
    /\ Diff.ops # <<>>
    /\ result.status = "ok"
    /\ result.changed
    /\ written = TheManifest
    /\ Cmds = <<"get">>

\* The run failed with the computed patch as the message: the failure of
\* fail_on_change
DriftFailure == result.status = "failed" /\ IsJson(result.msg)
\* The run failed for another reason
OtherFailure == result.status = "failed" /\ ~IsJson(result.msg)
\* The engine has something to do for the action and the observed state:
\* outside generation and check mode the run would go on to mutate.
WouldMutate ==
    CASE params.action = "create" -> ~ObservedPresent
      [] params.action \in {"apply", "replace"} ->
            ~ObservedPresent \/ Diff.ops # <<>>
      [] params.action = "patch" -> ObservedPresent /\ ~NotPatch(loc.patch)
      [] params.action = "delete" -> ObservedPresent
      [] params.action = "ignore" -> FALSE

\* C6 (as stated; refuted): with fail_on_change = true a run fails with the
\* computed patch as payload exactly when the engine would otherwise have
\* mutated; a run with an empty diff or a no-op action never fails so,
\* whatever generate_resources is.
C6_FailOnlyOnChange ==
    (Ended /\ params.fail_on_change /\ ~OtherFailure)
    => (DriftFailure <=> WouldMutate)

\* C7: a patch run against a cluster that does not hold the resource fails
\* with the not-found message, without a patch --local invocation, a scratch
\* file or a mutating invocation: get is all it invokes.
C7_PatchOfAbsentFails ==
    (/\ params # None
     /\ params.action = "patch"
     /\ cluster.object = None
     /\ InitRaises(params.resource) = "")
    => /\ scratch = {}
       /\ \A i \in 1..Len(invocations) : invocations[i].cmd = "get"
       /\ pc = "done"
          => /\ result.status = "failed"
             /\ result.msg = Str("Cannot patch " \o params.resource.kind
                                 \o " " \o params.resource.metadata.name
                                 \o ", resource not found")
             /\ Cmds = <<"get">>
C7_Witness ==
    /\ Ended
    /\ params.action = "patch"
    /\ cluster.object = None
    /\ result.status = "failed"
    /\ result.msg = NotFound(params.resource)
    /\ Cmds = <<"get">>

\* The run was aborted by an error of the engine, not by an exit status of
\* the CLI.
Aborted == pc = "done" /\ result.status # "ok" /\ "rc" \notin DOMAIN result

\* C8 (as stated; refuted): every error that aborts a run (validation,
\* not-found for patch, fail_on_change, incompatible merge) reaches the caller
\* as a failure envelope with the message, the action and the desired
\* resource, and the run makes no mutating invocation.
C8_FailureEnvelope ==
    Aborted
    => /\ result.status = "failed"
       /\ {"msg", "action", "resource"} \subseteq DOMAIN result
       /\ NoMutation

\* C9 (as stated; refuted): when a run ends, on whichever path, the scratch
\* file of its local-patch simulation does not exist.
C9_ScratchRemoved == pc = "done" => scratch = {}

\* C10 (as stated; refuted): an ignore run returns changed = false, patch
\* null and the desired resource as constructed, without any invocation of
\* the CLI, get included.
C10_IgnoreInvokesNothing ==
    (/\ pc = "done"
     /\ params.action = "ignore"
     /\ InitRaises(params.resource) = "")
    => /\ result.status = "ok"
       /\ ~result.changed
       /\ result.patch = NoPatch
       /\ result.resource = InitResource(params.resource, params.namespace)
       /\ invocations = <<>>

\* The patch the run computed: the diff for apply and replace of a resource
\* that is there, the diff of the simulation for patch, none otherwise
ComputedPatch ==
    IF params.action \in {"apply", "replace"} /\ ObservedPresent THEN Diff
    ELSE loc.patch

\* C11: a run in check mode makes no mutating invocation and writes no
\* manifest; when it ends without failure and a change would occur, it
\* reports changed = true with the computed patch.
C11_CheckModeOnlyReports ==
    (params # None /\ params.check_mode)
    => /\ NoMutation
       /\ written = <<>>
       /\ (Ended /\ result.status = "ok" /\ WouldMutate)
          => /\ result.changed
             /\ result.patch = ComputedPatch
C11_Witness ==
    /\ Ended
    /\ params.check_mode
    /\ ~params.generate_resources
    /\ params.action = "apply"
    /\ ObservedPresent
    /\ result.status = "ok"
    /\ result.changed
    /\ result.patch = Diff
    /\ Diff.ops # <<>>
    /\ Cmds = <<"get">>

\* C12 (as stated; refuted): a delete run that finds no resource reports
\* changed = false and makes no mutating invocation; one that finds the
\* resource reports changed = true and, outside check mode and generation,
\* invokes delete exactly once.
C12_DeleteByObserved ==
    (Ended /\ params.action = "delete" /\ ~params.fail_on_change
     /\ result.status = "ok")
    => IF ObservedPresent
       THEN /\ result.changed
            /\ (~params.check_mode /\ ~params.generate_resources)
               => Cmds = <<"get", "delete">>
       ELSE /\ ~result.changed
            /\ NoMutation

\* C13 (as stated; refuted): a replace run that finds no resource is
\* rewritten to create: it returns action create and changed = true and its
\* mutating invocation is create; one that finds the resource with an empty
\* diff returns changed = false and the observed resource.
C13_ReplaceByObserved ==
    (Ended /\ params.action = "replace" /\ ~params.fail_on_change
     /\ result.status = "ok")
    => IF ~ObservedPresent
       THEN /\ result.action = "create"
            /\ result.changed
            /\ \A i \in 1..Len(invocations) :
                  Mutating(invocations[i]) => invocations[i].cmd = "create"
            /\ (~params.check_mode /\ ~params.generate_resources)
               => Cmds = <<"get", "create">>
       ELSE Diff.ops = <<>>
            => /\ ~result.changed
               /\ result.resource = loc.current_resource
               /\ NoMutation

(***************************************************************************)
(* The functions of the module called on their own: params holds the       *)
(* arguments of one call, result what the call returned.                   *)
(***************************************************************************)
Lists(members) == UNION {[1..k -> members] : k \in 0..MaxLen}
Subjects == {[kind |-> "User", name |-> n] : n \in {"a", "b"}}
EnvVars == {[name |-> n, value |-> v] : n \in {"A", "B"}, v \in {"1", "2"}}

\* Subjects as a RoleBinding carries them
BindingSubjects ==
    Subjects
    \cup {[kind |-> "SystemGroup", name |-> "a"],
          [apiGroup |-> "rbac.authorization.k8s.io", kind |-> "Group", name |-> "a"]}
RoleBindings ==
    {RoleBinding(m, [apiGroup |-> Absent, kind |-> Absent, name |-> "view"], l) :
        m \in {AbsentRec, Metadata("web", Absent, Absent, AbsentRec)},
        l \in Lists(BindingSubjects)}
\* The documents given to normalize_resource: they have a kind; their
\* annotations are absent, null, the empty mapping or populated
Documents ==
    RoleBindings
    \cup {d \in UNION {Resources(k, "ns1") : k \in Kinds} : d.kind # Absent}
    \cup {Config(k, n, a, FirstBody(k)) :
            k \in Kinds, n \in {Absent, "ns1"},
            a \in {EmptyAnnotations, Annotations(AbsentRec, "note"),
                   Annotations(Str("{}"), Absent)}}

ContainerResources ==
    {EmptyResources,
     [limits |-> [memory |-> <<"1", "G", "i">>], requests |-> AbsentRec],
     [limits |-> [memory |-> Decimal(1024 * 1024 * 1024)], requests |-> AbsentRec],
     [limits |-> [memory |-> <<"2", "G", "i">>], requests |-> AbsentRec],
     [limits |-> [cpu |-> <<"2">>, memory |-> <<"1", "G", "i">>],
      requests |-> [cpu |-> <<"5", "0", "0", "m">>]]}
ContainerEnvs == {<<>>, <<[name |-> "A", value |-> "1"]>>, <<[name |-> "A"]>>}
Containers ==
    {[name |-> n, env |-> e, resources |-> r] :
        n \in {"c", "d"}, e \in ContainerEnvs, r \in ContainerResources}
ContainerLists ==
    {<<>>} \cup {<<c>> : c \in Containers}
    \cup {<<c, d>> : c \in {x \in Containers : x.name = "c" /\ x.env = <<>>},
                     d \in {x \in Containers : x.name = "d" /\ x.env = <<>>
                                               /\ x.resources = EmptyResources}}

\* The specs of NetworkPolicy documents
PortLists ==
    {<<[port |-> 80]>>, <<[port |-> 80, protocol |-> "TCP"]>>,
     <<[port |-> 80], [port |-> 53, protocol |-> "UDP"]>>}
Rules(peers) ==
    {[ports |-> p] : p \in PortLists}
    \cup {[x \in {peers, "ports"} |->
            IF x = "ports" THEN p ELSE <<[podSelector |-> "db"]>>] :
          p \in PortLists}
    \cup {[x \in {peers} |-> <<[podSelector |-> "db"]>>]}
RuleLists(peers) == {<<>>} \cup {<<r>> : r \in Rules(peers)}
NetworkPolicySpecs ==
    {[ingress |-> i] : i \in RuleLists("from")}
    \cup {[egress |-> e, ingress |-> i] :
            e \in RuleLists("to"), i \in {<<>>, <<[ports |-> <<[port |-> 80]>>]>>}}
    \cup {[egress |-> e, policyTypes |-> <<Str("Egress")>>] :
            e \in RuleLists("to")}

\* The specs of DeploymentConfig documents: their containers and triggers
ImageContainers(names) ==
    {[i \in 1..Len(names) |-> [name |-> names[i], image |-> f[i]]] :
        f \in [1..Len(names) -> {"img:1", "img:2"}]}
    \cup {[i \in 1..Len(names) |-> [name |-> names[i]]]}
ImageChange(names) ==
    [type |-> "ImageChange",
     imageChangeParams |-> [containerNames |-> names,
                            from |-> [kind |-> "ImageStreamTag", name |-> "web:latest"]]]
TriggerLists ==
    {<<[type |-> "ConfigChange"]>>, <<ImageChange(<<"c">>)>>,
     <<[type |-> "ConfigChange"], ImageChange(<<"d">>)>>,
     <<ImageChange(<<"c">>), ImageChange(<<"d">>)>>,
     <<[type |-> "ImageChange"]>>}
DeploymentConfigSpec(containers, triggers) ==
    [template |-> [spec |-> [containers |-> containers]], triggers |-> triggers]

\* The desired and the current resources given to set_dynamic_values
ClaimSpecs ==
    [storageClassName : {Absent, "fast", "slow"}, volumeName : {Absent, "pv1", "pv2"},
     volumeMode : {Absent, "Filesystem"}]
ServiceSpecs ==
    {ServiceSpec(t, ip) : t \in {Absent, "NodePort"},
                          ip \in {Absent, "10.0.0.42", "10.0.0.7"}}
Adoptable(specs) ==
    {[type |-> "PersistentVolumeClaim", spec |-> x] : x \in ClaimSpecs \cap specs}
    \cup {[type |-> "Service", spec |-> x] : x \in ServiceSpecs \cap specs}
    \cup {[type |-> "ConfigMap", spec |-> AbsentRec]}
AdoptionsOf(d) ==
    {[fn |-> "set_dynamic_values", action |-> a,
      resource |-> Config(d.type, "ns1", AbsentRec,
                          [labels |-> Absent, data |-> Absent, spec |-> d.spec]),
      current_resource |-> c] :
        a \in Actions,
        c \in {None}
              \cup {Config(d.type, "ns1", AbsentRec,
                           [labels |-> "app", data |-> Absent, spec |-> x]) :
                    x \in {y.spec : y \in {z \in Adoptable(ClaimSpecs \cup ServiceSpecs) :
                                               z.type = d.type}}
                          \cup {AbsentRec}}}
Adoptions == UNION {AdoptionsOf(d) : d \in Adoptable(ClaimSpecs \cup ServiceSpecs)}

\* Ingress rules as they are given, their lists unmarked
PlainRules ==
    {[ports |-> p] : p \in {<<>>, <<[port |-> 80]>>, <<[port |-> 80], [port |-> 53]>>,
                            <<[port |-> 53], [port |-> 80, protocol |-> "TCP"]>>}}

\* The pairs of documents given to compare_resource: two documents of a
\* kind that differ in any of their top-level fields
Compared(kind) ==
    IF kind = "RoleBinding"
    THEN {RoleBinding(Metadata("web", Absent, l, AbsentRec),
                      [apiGroup |-> Absent, kind |-> k, name |-> "view"], s) :
            l \in {Absent, "app"}, k \in {Absent, "Role"},
            s \in Lists({[kind |-> "User", name |-> "a"]})}
    ELSE {[Document(kind, Metadata("web", Absent, l, AbsentRec), d, s)
                EXCEPT !.status = t] :
            l \in {Absent, "app"}, d \in {Absent, "d1", "d2"},
            s \in {AbsentRec, ServiceSpec(Absent, Absent), ServiceSpec("NodePort", Absent)},
            t \in {Absent, "Active"}}

\* str.split() of a string of words and blanks, word being the word read so
\* far
RECURSIVE SplitFrom(_, _)
SplitFrom(s, word) ==
    LET ended == IF word = "" THEN <<>> ELSE <<word>>
    IN  IF s = "" THEN ended
        ELSE IF SubSeq(s, 1, 1) = " "
        THEN ended \o SplitFrom(SubSeq(s, 2, Len(s)), "")
        ELSE SplitFrom(SubSeq(s, 2, Len(s)), word \o SubSeq(s, 1, 1))
split(s) == SplitFrom(s, "")

\* opt.replace('_', '-')
RECURSIVE replace(_)
replace(opt) ==
    IF opt = "" THEN ""
    ELSE (IF SubSeq(opt, 1, 1) = "_" THEN "-" ELSE SubSeq(opt, 1, 1))
         \o replace(SubSeq(opt, 2, Len(opt)))

\* A boolean value of an option, apart from its string values Str(s)
Bool(b) == [bool |-> b]
IsBool(v) == "bool" \in DOMAIN v
Flag == "--insecure-skip-tls-verify"

\* __init__, lines 1084-1088: the executable and its own arguments
Executable(connection) ==
    IF connection.oc_cmd # Absent THEN split(connection.oc_cmd) ELSE <<"oc">>
\* __init__, lines 1089-1091: one argument for each option that is given
OptionArgs(connection) ==
    LET Arg(opt) == IF connection[opt] # Absent
                    THEN <<"--" \o replace(opt) \o "=" \o connection[opt]>>
                    ELSE <<>>
    IN  Arg("server") \o Arg("certificate_authority") \o Arg("token")
\* __init__, lines 1092-1096: a boolean adds the flag whatever its value, a
\* string adds it with its value unless it is empty
InsecureArgs(connection) ==
    LET v == connection.insecure_skip_tls_verify
    IN  IF v = AbsentRec THEN <<>>
        ELSE IF IsBool(v) THEN <<Flag>>
        ELSE IF v.str # "" THEN <<Flag \o "=" \o v.str>>
        ELSE <<>>
\* self.oc_cmd at the end of __init__
oc_cmd(connection) ==
    Executable(connection) \o OptionArgs(connection) \o InsecureArgs(connection)
\* __init__, lines 1097-1099: the values the module must keep out of its logs
no_log_values(connection) ==
    LET cmd == oc_cmd(connection)
    IN  {SubSeq(cmd[i], 9, Len(cmd[i])) :
            i \in {j \in 1..Len(cmd) :
                      Len(cmd[j]) >= 8 /\ SubSeq(cmd[j], 1, 8) = "--token="}}
\* run_oc, line 1104 or 1111: the argument vector handed to run_command
run_oc(connection, args) == oc_cmd(connection) \o args

Connections ==
    {[oc_cmd |-> e, server |-> s, certificate_authority |-> ca, token |-> t,
      insecure_skip_tls_verify |-> v] :
        e \in {Absent, "oc", "kubectl  --v=2"},
        s \in {Absent, "https://api:8443"},
        ca \in {Absent, "ca.crt"},
        t \in {Absent, "s3cret"},
        v \in {AbsentRec, Bool(TRUE), Bool(FALSE), Str(""), Str("true")}}
Commands ==
    {<<"get", "Service", "web", "-o", "json", "-n", "prod">>,
     <<"patch", "-f", "tmp.json", "--local", "-o", "json">>,
     <<"apply", "-f", "-", "-n", "prod">>}

MemoryUnits ==
    {<<>>, <<"m">>, <<"K", "i">>, <<"k">>, <<"K">>, <<"M", "i">>, <<"M">>,
     <<"G", "i">>, <<"G">>}

Calls ==
    {[fn |-> "subjects", current |-> l1, config |-> l2] :
        l1 \in Lists(Subjects), l2 \in Lists(Subjects)}
    \cup {[fn |-> "env", current |-> l1, config |-> l2] :
        l1 \in Lists(EnvVars), l2 \in Lists(EnvVars)}
    \cup {[fn |-> "normalize_resource", resource |-> d] : d \in Documents}
    \cup {[fn |-> "normalize_ContainerList_V1", containers |-> l] :
            l \in ContainerLists}
    \cup {[fn |-> "containers", current |-> l1, config |-> l2] :
            l1 \in ContainerLists, l2 \in ContainerLists}
    \cup {[fn |-> "NetworkPolicy", resource |-> s1, compare_to |-> s2] :
            s1 \in NetworkPolicySpecs, s2 \in NetworkPolicySpecs}
    \cup {[fn |-> "DeploymentConfig", triggers |-> t, current |-> l1, config |-> l2] :
            t \in TriggerLists \cup {<<>>},
            l1 \in ImageContainers(<<"c", "d">>) \cup ImageContainers(<<"c">>),
            l2 \in ImageContainers(<<"c", "d">>)}
    \cup Adoptions
    \cup UNION {{[fn |-> "compare_resource", resource |-> r1, compare_to |-> r2] :
                    r1 \in Compared(k), r2 \in Compared(k)} :
                k \in Kinds \cup {"RoleBinding"}}
    \cup {[fn |-> "ingress", current |-> l1, config |-> l2] :
            l1 \in Lists(PlainRules), l2 \in Lists(PlainRules)}
    \cup {[fn |-> "run_oc", connection |-> c, args |-> a] :
            c \in Connections, a \in Commands}
    \cup {[fn |-> "memory", text |-> Decimal(n) \o unit] :
            n \in 0..MaxAmount, unit \in MemoryUnits}
    \cup {[fn |-> "memory", text |-> Decimal(1024 * 1024 * 1024)]}
    \cup {[fn |-> "cpu", text |-> Decimal(n) \o unit] :
            n \in (0..MaxAmount) \cup {500, 2000}, unit \in {<<>>, <<"m">>}}

InitFn ==
    /\ params \in Calls
    /\ pc = "call"
    /\ result = None
    /\ cluster = [kind |-> "ConfigMap", namespace |-> Null, object |-> None]
    /\ scratch = {}
    /\ runs = 0
    /\ self = None
    /\ loc = None
    /\ invocations = <<>>
    /\ written = <<>>
    /\ prev = None

Return(value) ==
    /\ result' = value
    /\ pc' = "return"
    /\ UNCHANGED <<cluster, scratch, runs, params, self, loc, invocations,
                   written, prev>>

\* make_field_patch on two lists of subjects as normalize_RoleBinding_V1
\* marks them
CompareSubjects ==
    /\ pc = "call"
    /\ params.fn = "subjects"
    /\ Return([ops |-> make_field_patch("subjects",
                                        mark_list_is_set(params.current),
                                        mark_list_is_set(params.config))])

\* make_field_patch on two lists of environment variables as
\* normalize_EnvVars_V1 marks them
CompareEnv ==
    /\ pc = "call"
    /\ params.fn = "env"
    /\ Return([ops |-> make_field_patch("env",
                                        mark_list_with_keys(params.current, "name"),
                                        mark_list_with_keys(params.config, "name"))])

\* The name bound to the argument itself
same_object(resource) == [alias |-> TRUE, value |-> resource]
\* The name `resource` inside normalize_resource after its first statement:
\* bound to a copy that shares nothing with the argument
deepcopy(resource) == [alias |-> FALSE, value |-> resource]

\* normalize_resource(argument): what it returns, and the argument as the
\* caller finds it after the call
NormalizeResource ==
    /\ pc = "call"
    /\ params.fn = "normalize_resource"
    /\ LET resource == deepcopy(params.resource)
           returned == normalize_resource(resource.value)
       IN  Return([argument |-> IF resource.alias /\ ~IsError(returned)
                                THEN returned
                                ELSE params.resource,
                   value |-> returned])

NormalizeContainers ==
    /\ pc = "call"
    /\ params.fn = "normalize_ContainerList_V1"
    /\ Return(normalize_ContainerList_V1(params.containers))

\* The normalizer applied to what it returned
NormalizeAgain ==
    /\ pc = "return"
    /\ params.fn \in {"normalize_resource", "normalize_ContainerList_V1"}
    /\ ~IsError(result)
    /\ params.fn = "normalize_resource" => ~IsError(result.value)
    /\ pc' = "again"
    /\ result' = [first |-> result.value,
                  second |-> IF params.fn = "normalize_resource"
                             THEN normalize_resource(result.value)
                             ELSE normalize_ContainerList_V1(result.value)]
    /\ UNCHANGED <<cluster, scratch, runs, params, self, loc, invocations,
                   written, prev>>

CompareContainers ==
    /\ pc = "call"
    /\ params.fn = "containers"
    /\ Return([ops |-> make_field_patch(
                    "containers",
                    normalize_ContainerList_V1(params.current).value,
                    normalize_ContainerList_V1(params.config).value)])

CompareNetworkPolicy ==
    /\ pc = "call"
    /\ params.fn = "NetworkPolicy"
    /\ Return([ops |-> make_field_patch(
                    "spec",
                    normalize_NetworkPolicySpec_V1(params.resource),
                    normalize_NetworkPolicySpec_V1(params.compare_to))])

\* The specs of the observed and of the desired DeploymentConfig, which
\* have the same triggers (none given: the default applies), normalized and
\* compared
SpecOf(containers) ==
    IF params.triggers = <<>>
    THEN [template |-> [spec |-> [containers |-> containers]]]
    ELSE DeploymentConfigSpec(containers, params.triggers)
CompareDeploymentConfig ==
    /\ pc = "call"
    /\ params.fn = "DeploymentConfig"
    /\ Return([ops |-> make_field_patch(
                    "spec",
                    normalize_DeploymentConfigSpec_V1(SpecOf(params.current)),
                    normalize_DeploymentConfigSpec_V1(SpecOf(params.config)))])

\* provision(), lines 1411-1412: self.resource after them
SetDynamicValues ==
    /\ pc = "call"
    /\ params.fn = "set_dynamic_values"
    /\ Return([resource |->
                IF params.current_resource # None
                   /\ params.action \in {"apply", "replace"}
                THEN set_dynamic_values(params.resource, params.current_resource)
                ELSE params.resource])

\* make_field_patch on two lists without sentinel
CompareIngress ==
    /\ pc = "call"
    /\ params.fn = "ingress"
    /\ Return([ops |-> make_field_patch("ingress", params.current, params.config)])

\* compare_resource(resource, compare_to) of an instance whose self.resource
\* is compare_to
CompareResource ==
    /\ pc = "call"
    /\ params.fn = "compare_resource"
    /\ Return(compare_resource(params.compare_to.kind, params.resource,
                               params.compare_to))

NormalizeMemory ==
    /\ pc = "call"
    /\ params.fn = "memory"
    /\ Return([value |-> normalize_memory_units(params.text)])

NormalizeCpu ==
    /\ pc = "call"
    /\ params.fn = "cpu"
    /\ Return([value |-> normalize_cpu_units(params.text)])

\* __init__ on the connection options and a call of run_oc
RunOc ==
    /\ pc = "call"
    /\ params.fn = "run_oc"
    /\ Return([argv |-> run_oc(params.connection, params.args),
               no_log_values |-> no_log_values(params.connection)])

NextFn ==
    \/ CompareSubjects
    \/ CompareEnv
    \/ NormalizeMemory
    \/ NormalizeCpu
    \/ NormalizeResource
    \/ NormalizeContainers
    \/ NormalizeAgain
    \/ CompareContainers
    \/ CompareNetworkPolicy
    \/ CompareDeploymentConfig
    \/ SetDynamicValues
    \/ CompareIngress
    \/ CompareResource
    \/ RunOc

SpecFn == InitFn /\ [][NextFn]_vars

Returned(fn) == pc = "return" /\ params.fn = fn
Members(lst) == {lst[i] : i \in 1..Len(lst)}
Count(lst, item) == Cardinality({i \in 1..Len(lst) : lst[i] = item})

\* C17 (as stated; refuted): for two lists marked as sets the differ emits
\* no operation exactly when they have the same multiset of members.
C17_SetDiffByMultiset ==
    Returned("subjects")
    => (result.ops = <<>>
        <=> \A m \in Subjects : Count(params.current, m) = Count(params.config, m))

\* C17 (amended): for two lists marked as sets the differ emits no operation
\* exactly when they have the same set of members: neither the order nor the
\* number of times a member occurs counts.
C17_SetDiffBySet ==
    Returned("subjects")
    => (result.ops = <<>> <=> Members(params.current) = Members(params.config))
C17_Witness ==
    /\ Returned("subjects")
    /\ Len(params.current) = 2
    /\ params.current[1] # params.current[2]
    /\ params.config = <<params.current[2], params.current[1]>>
    /\ result.ops = <<>>

KeysOf(lst) == {lst[i].name : i \in 1..Len(lst)}
WithKey(lst, k) == {m \in Members(lst) : m.name = k}
SameKeyed(l1, l2) ==
    /\ KeysOf(l1) = KeysOf(l2)
    /\ \A k \in KeysOf(l1) : WithKey(l1, k) = WithKey(l2, k)
UniqueKeys(lst) ==
    \A i, j \in 1..Len(lst) : lst[i].name = lst[j].name => i = j

Unit == IF Len(params.text) >= 2 /\ ~IsDigit(params.text[Len(params.text) - 1])
        THEN Suffix(params.text, 2)
        ELSE IF ~IsDigit(Last(params.text)) THEN Suffix(params.text, 1)
        ELSE <<>>
Amount == IntOf(Prefix(params.text, Len(Unit)))
\* The factor of a unit of memory in the reference table
Factor(unit) ==
    CASE unit = <<"K", "i">> -> 1024
      [] unit = <<"M", "i">> -> 1048576
      [] unit = <<"G", "i">> -> 1073741824
      [] unit \in {<<"k">>, <<"K">>} -> 1000
      [] unit = <<"M">> -> 1000000
      [] unit = <<"G">> -> 1000000000

\* C19: memory nKi, nMi, nGi, nK, nk, nM, nG come out as the decimal string
\* of n times 1024, 1024^2, 1024^3, 1000, 1000, 1000^2, 1000^3 and memory
\* without unit comes out unchanged; cpu ending in m comes out unchanged and
\* cpu n as <1000*n>m; 1Gi gives "1073741824", as 1073741824 does, 2G gives
\* "2000000000", 500m gives "500m", 2 gives "2000m", as 2000m does.
C19_UnitsByTable ==
    /\ (Returned("memory") /\ Unit # <<"m">>)
       => /\ result.value = IF Unit = <<>> THEN params.text
                            ELSE DecimalProduct(Amount, Factor(Unit))
          /\ params.text \in {<<"1", "G", "i">>,
                              <<"1", "0", "7", "3", "7", "4", "1", "8", "2", "4">>}
             => result.value = <<"1", "0", "7", "3", "7", "4", "1", "8", "2", "4">>
          /\ params.text = <<"2", "G">>
             => result.value = <<"2", "0", "0", "0", "0", "0", "0", "0", "0", "0">>
          /\ params.text \in {<<"1", "M", "i">>, <<"1", "0", "2", "4", "K", "i">>}
             => result.value = <<"1", "0", "4", "8", "5", "7", "6">>
    /\ Returned("cpu")
       => /\ result.value = IF Unit = <<"m">> THEN params.text
                            ELSE Decimal(1000 * Amount) \o <<"m">>
          /\ params.text = <<"5", "0", "0", "m">>
             => result.value = <<"5", "0", "0", "m">>
          /\ params.text \in {<<"2">>, <<"2", "0", "0", "0", "m">>}
             => result.value = <<"2", "0", "0", "0", "m">>
C19_Witness ==
    /\ Returned("memory")
    /\ params.text = <<"2", "G">>
    /\ result.value = <<"2", "0", "0", "0", "0", "0", "0", "0", "0", "0">>

Again(fn) == pc = "again" /\ params.fn = fn
Tagged(lst) == \E i \in 1..Len(lst) : IsTag(lst[i])

\* C14 (refuted): normalizing what normalization returned succeeds and
\* returns the same document, for documents with set lists and for container
\* lists, which are keyed.
C14_NormalizeIdempotent ==
    /\ Again("normalize_resource")
       => ~IsError(result.second) /\ result.second = result.first
    /\ Again("normalize_ContainerList_V1")
       => ~IsError(result.second) /\ result.second.value = result.first

ContainerOps ==
    {i \in 1..Len(result.ops) :
        /\ result.ops[i].op \in {"test", "add", "replace"}
        /\ result.ops[i].path \in
              {"/containers/-"} \cup {Index("/containers", k) : k \in 0..MaxLen}}

\* C16 (refuted): no value of a test, add or replace operation of a patch
\* holds a sentinel at any depth; here, in the env of a container that the
\* patch adds or tests whole.
C16_NoSentinelInPatch ==
    Returned("containers")
    => \A i \in ContainerOps : ~Tagged(result.ops[i].value.env)

\* The normalized containers of the call, and those of a name
Normalized(lst) == Front(normalize_ContainerList_V1(lst).value)
LimitsOf(lst) == {lst[i].resources.limits : i \in 1..Len(lst)}
OneContainer(lst, memory) ==
    /\ Len(lst) = 1
    /\ lst[1].name = "c"
    /\ lst[1].env = <<>>
    /\ lst[1].resources = [limits |-> [memory |-> memory], requests |-> AbsentRec]

\* C20 (refuted): normalization keeps the limits of a container, with memory
\* in canonical units; memory 1Gi against 1073741824 gives no operation and
\* memory 1Gi against 2Gi gives some.
C20_ResourcesCanonicalAndKept ==
    Returned("containers")
    => /\ \A i \in 1..Len(params.config) :
            "memory" \in DOMAIN params.config[i].resources.limits
            => /\ Normalized(params.config)[i].resources.limits # NullRec
               /\ Normalized(params.config)[i].resources.limits.memory
                  = normalize_memory_units(params.config[i].resources.limits.memory)
       /\ (OneContainer(params.current, Decimal(1024 * 1024 * 1024))
            /\ OneContainer(params.config, <<"1", "G", "i">>))
          => result.ops = <<>>
       /\ (OneContainer(params.current, <<"1", "G", "i">>)
            /\ OneContainer(params.config, <<"2", "G", "i">>))
          => result.ops # <<>>

\* C22 (refuted): after normalization of a document of any kind whose
\* metadata is populated, the last-applied-configuration annotation,
\* creationTimestamp, namespace, selfLink and uid are '' and generation and
\* resourceVersion are 0, whatever the annotations of the input were.
C22_DynamicMask ==
    (/\ Returned("normalize_resource")
     /\ ~IsError(result.value)
     /\ params.resource.metadata # AbsentRec
     /\ ~MetadataIsEmpty(params.resource.metadata))
    => LET m == result.value.metadata
       IN  /\ m.annotations # AbsentRec
           /\ m.annotations.lac = Str("")
           /\ m.creationTimestamp = ""
           /\ m.namespace = ""
           /\ m.selfLink = ""
           /\ m.uid = ""
           /\ m.generation = "0"
           /\ m.resourceVersion = "0"

\* The tags a list carries
Tags(lst) == Cardinality({i \in 1..Len(lst) : IsTag(lst[i])})
OneRule(spec, direction, ports) ==
    /\ DOMAIN spec = {direction}
    /\ spec[direction] = <<[ports |-> ports]>>

\* C21 (refuted): after normalization every port of every ingress rule has
\* a protocol and the ports of every ingress rule are marked as a set, the
\* lists of every egress rule carry one tag, and ingress ports [{port: 80}]
\* desired against [{port: 80, protocol: TCP}] observed give no operation.
C21_IngressLikeEgress ==
    Returned("NetworkPolicy")
    => LET config == normalize_NetworkPolicySpec_V1(params.compare_to)
       IN  /\ \A i \in 1..Len(config.ingress) :
                "ports" \in DOMAIN config.ingress[i]
                => /\ list_is_set(config.ingress[i].ports)
                   /\ \A j \in 1..(Len(config.ingress[i].ports) - 1) :
                        "protocol" \in DOMAIN config.ingress[i].ports[j]
           /\ \A i \in 1..Len(config.egress) :
                \A k \in DOMAIN config.egress[i] : Tags(config.egress[i][k]) = 1
           /\ (OneRule(params.compare_to, "ingress", <<[port |-> 80]>>)
                /\ OneRule(params.resource, "ingress",
                           <<[port |-> 80, protocol |-> "TCP"]>>))
              => result.ops = <<>>

\* The normalized containers of the desired DeploymentConfig of the call
BlankedConfig ==
    Front(normalize_DeploymentConfigSpec_V1(SpecOf(params.config))
            .template.spec.containers)
\* The names the ImageChange triggers of the call give
Triggered == ImageChangeContainerNames(params.triggers)
\* The lists differ in the image of their i-th container and in nothing else
ImageDiffers(i) ==
    /\ Len(params.current) = Len(params.config)
    /\ i \in 1..Len(params.config)
    /\ DOMAIN params.current[i] = DOMAIN params.config[i]
    /\ "image" \in DOMAIN params.config[i]
    /\ params.current[i].image # params.config[i].image
    /\ \A j \in (1..Len(params.config)) \ {i} : params.current[j] = params.config[j]

\* C23: after DeploymentConfig normalization the image of a container is ''
\* if an ImageChange trigger names the container and what it was if none
\* does; a difference in the image of a named container gives no operation
\* and a difference in the image of another container gives some.
C23_ImageBlankedWhenTriggered ==
    Returned("DeploymentConfig")
    => /\ \A i \in 1..Len(params.config) :
            IF params.config[i].name \in Triggered
            THEN BlankedConfig[i].image = ""
            ELSE /\ "image" \in DOMAIN BlankedConfig[i]
                    <=> "image" \in DOMAIN params.config[i]
                 /\ "image" \in DOMAIN params.config[i]
                    => BlankedConfig[i].image = params.config[i].image
       /\ \A i \in 1..MaxLen :
            ImageDiffers(i)
            => (result.ops = <<>> <=> params.config[i].name \in Triggered)
C23_Witness ==
    /\ Returned("DeploymentConfig")
    /\ Triggered = {"c"}
    /\ ImageDiffers(2)
    /\ params.config[1].image = "img:2"
    /\ BlankedConfig[1].image = ""
    /\ result.ops # <<>>

\* The keys of the spec that set_dynamic_values may fill for a kind
DynamicKeys(kind) ==
    IF kind = "PersistentVolumeClaim" THEN {"storageClassName", "volumeName"}
    ELSE IF kind = "Service" THEN {"clusterIP"}
    ELSE {}
\* The value of the key in the current resource, or Absent
CurrentValue(key) ==
    IF params.current_resource = None \/ params.current_resource.spec = AbsentRec
    THEN Absent
    ELSE params.current_resource.spec[key]

Applied ==
    /\ pc \in {"exit", "done"}
    /\ invocations # <<>>
    /\ Last(invocations).cmd = "apply"

\* C25 (refuted): the document piped to apply is self.resource with
\* metadata.resourceVersion set to the popped resourceVersion and the
\* last-applied-configuration annotation set to the popped annotation, and
\* the resource returned is self.resource without them.
C25_ApplyReattaches ==
    Applied
    => /\ IsJson(Last(invocations).data)
       /\ LET piped == Loads(Last(invocations).data)
          IN  /\ piped.metadata.resourceVersion = loc.current_resource_version
              /\ IsMapping(piped.metadata.annotations)
              /\ piped.metadata.annotations.lac
                 = loc.current_last_applied_configuration
              /\ [piped EXCEPT !.metadata.resourceVersion = Absent,
                               !.metadata.annotations = AbsentRec]
                 = [self.resource EXCEPT !.metadata.resourceVersion = Absent,
                                         !.metadata.annotations = AbsentRec]
       /\ (pc = "done" /\ result.status = "ok") => result.resource = self.resource

\* The calls that return a patch
PatchReturned ==
    /\ pc = "return"
    /\ params.fn \in {"subjects", "env", "containers", "ingress", "NetworkPolicy",
                      "DeploymentConfig"}
\* The paths of the lists of the documents of a call, without the index
ListBases ==
    {"/" \o params.fn, "/spec/egress", "/spec/ingress", "/spec/policyTypes",
     "/spec/triggers", "/spec/template/spec/containers"}
    \cup {Index("/" \o params.fn, k) \o x :
            k \in 0..MaxLen, x \in {"/ports", "/env"}}
    \cup {Index("/spec/" \o d, k) \o x :
            k \in 0..MaxLen, d \in {"egress", "ingress"}, x \in {"/ports", "/from", "/to"}}
\* The operation is the removal of the member at an index of the list
RemovesAt(op, base, k) == op.op = "remove" /\ op.path = Index(base, k)

\* C26: in a patch every remove and every replace comes right after a test
\* of the same path; the test ahead of the removal of a member of a list has
\* the member of the source as its value; the removals of the members of one
\* list come by descending index; the additions to a set or keyed list have
\* '-' as the last segment of their path.
C26_PatchOrdering ==
    PatchReturned
    => /\ \A i \in 1..Len(result.ops) :
            result.ops[i].op \in {"remove", "replace"}
            => /\ i > 1
               /\ result.ops[i - 1].op = "test"
               /\ result.ops[i - 1].path = result.ops[i].path
       /\ \A base \in ListBases, i \in 1..Len(result.ops), j \in 1..Len(result.ops) :
            \A k1 \in 0..(MaxLen + 2), k2 \in 0..(MaxLen + 2) :
                (/\ i < j
                 /\ RemovesAt(result.ops[i], base, k1)
                 /\ RemovesAt(result.ops[j], base, k2))
                => k1 > k2
       /\ params.fn \in {"subjects", "env", "ingress"}
          => \A i \in 1..Len(result.ops), k \in 0..(MaxLen - 1) :
                RemovesAt(result.ops[i], "/" \o params.fn, k)
                => result.ops[i - 1].value = params.current[k + 1]
       /\ params.fn \in {"subjects", "env", "containers"}
          => \A i \in 1..Len(result.ops) :
                result.ops[i].op = "add"
                => /\ \A k \in 0..MaxLen :
                        result.ops[i].path # Index("/" \o params.fn, k)
                   /\ params.fn # "containers"
                      => result.ops[i].path = "/" \o params.fn \o "/-"
C26_Witness ==
    /\ Returned("ingress")
    /\ Len(params.current) = MaxLen
    /\ params.config = <<>>
    /\ Len(result.ops) = 2 * MaxLen
    /\ RemovesAt(result.ops[2], "/ingress", MaxLen - 1)
    /\ RemovesAt(result.ops[2 * MaxLen], "/ingress", 0)

\* The fields the documents of a kind have that compare_resource goes through
Listed(kind) ==
    IF kind = "RoleBinding" THEN {"metadata", "roleRef", "subjects"}
    ELSE IF kind = "ConfigMap" THEN {"metadata", "data"}
    ELSE {"metadata", "spec"}
\* The path is that of the field or of something in it
Rooted(path, field) ==
    \/ path = "/" \o field
    \/ /\ Len(path) > Len(field) + 1
       /\ SubSeq(path, 1, Len(field) + 2) = "/" \o field \o "/"
\* The normalized documents of the call
NormalCurrent == normalize_resource(params.resource)
NormalConfig == normalize_resource(params.compare_to)

\* C27: every operation of the patch of compare_resource has its path in a
\* field of comparison_fields(kind); documents that are the same in these
\* fields give no operation; a field of them that only the observed document
\* has gives test and remove, one that only the desired document has gives
\* add.
C27_OnlyComparisonFields ==
    (Returned("compare_resource") /\ ~IsError(result))
    => LET kind == params.compare_to.kind
       IN  /\ \A i \in 1..Len(result.ops) :
                \E f \in Listed(kind) : Rooted(result.ops[i].path, f)
           /\ (\A f \in Listed(kind) : NormalCurrent[f] = NormalConfig[f])
              => result.ops = <<>>
           /\ \A f \in Listed(kind) \cap {"data", "spec"} :
                /\ (HasField(NormalCurrent, f) /\ ~HasField(NormalConfig, f))
                   => \E i \in 1..(Len(result.ops) - 1) :
                        /\ result.ops[i] = Test("/" \o f, NormalCurrent[f])
                        /\ result.ops[i + 1] = Remove("/" \o f)
                /\ (HasField(NormalConfig, f) /\ ~HasField(NormalCurrent, f))
                   => \E i \in 1..Len(result.ops) :
                        result.ops[i] = Add("/" \o f, NormalConfig[f])
C27_Witness ==
    /\ Returned("compare_resource")
    /\ params.compare_to.kind = "ConfigMap"
    /\ params.resource.spec # params.compare_to.spec
    /\ params.resource.status # params.compare_to.status
    /\ params.resource.data = "d1"
    /\ params.compare_to.data = Absent
    /\ result.ops = <<Test("/data", "d1"), Remove("/data")>>

\* The indices of the mutating invocations of the run
Mutations == {i \in 1..Len(invocations) : Mutating(invocations[i])}
\* The decision step of the run found something to do: a resource to create
\* or to delete, a non-empty diff or a non-empty patch.
ChangeFound ==
    CASE params.action = "create" -> ~ObservedPresent
      [] params.action \in {"apply", "replace"} ->
            ~ObservedPresent \/ (~IsError(Diff) /\ Diff.ops # <<>>)
      [] params.action = "patch" -> ObservedPresent /\ ~NotPatch(loc.patch)
      [] params.action = "delete" -> ObservedPresent
      [] params.action = "ignore" -> FALSE

\* C28: every run is read, then compute, then write: the first invocation of
\* a run is the get of the observed resource, a run makes at most one
\* mutating invocation, that invocation is its last one, and it is made only
\* when the decision step found a change and fail_on_change, check mode and
\* generate_resources are all off (so no manifest was written either).
C28_ReadComputeWrite ==
    /\ invocations # <<>> =>
          /\ invocations[1].cmd = "get"
          /\ loc # None
    /\ Cardinality(Mutations) <= 1
    /\ \A i \in Mutations :
          /\ i = Len(invocations)
          /\ i > 1
          /\ ~params.fail_on_change
          /\ ~params.check_mode
          /\ ~params.generate_resources
          /\ written = <<>>
          /\ ChangeFound
C28_Witness ==
    /\ Ended
    /\ result.status = "ok"
    /\ params.action = "patch"
    /\ Cmds = <<"get", "patch", "patch">>
    /\ Mutations = {3}
    /\ cluster.object # None

\* The argument vector carries the flag, bare or with a value
CarriesFlag(argv) ==
    \E i \in 1..Len(argv) :
        \/ argv[i] = Flag
        \/ /\ Len(argv[i]) > Len(Flag)
           /\ SubSeq(argv[i], 1, Len(Flag) + 1) = Flag \o "="
\* The option is set to true or to a non-empty string
SetTrue(v) == v = Bool(TRUE) \/ (v # AbsentRec /\ ~IsBool(v) /\ v.str # "")

\* C29 (as stated; refuted): the argument vector of an invocation carries
\* --insecure-skip-tls-verify only when the connection option
\* insecure_skip_tls_verify is set to true or to a non-empty string; with the
\* option absent or boolean false the flag is not there.
C29_FlagOnlyWhenSet ==
    Returned("run_oc")
    => (CarriesFlag(result.argv)
        => SetTrue(params.connection.insecure_skip_tls_verify))

====
